---------------------------- MODULE Spec2Model ----------------------------
(***************************************************************************)
(* Model of the ISAAC negotiation core: the planner's perceive / decide /  *)
(* act loop (src/src/planning.py), the immutable SystemConfig and          *)
(* Candidate structures with their merge rules, the controller's           *)
(* run_negotiation lifecycle (src/src/controller/controller.py) and the    *)
(* observer (src/src/observer/observer.py).                                *)
(*                                                                         *)
(* Agent names are the agents' addresses; only their lexicographic order   *)
(* matters to the code, so agent k stands for the k-th smallest address.   *)
(* The author name 'controller' used by the observer sorts before every    *)
(* 'tcp://...' address and is modelled as 0.                               *)
(***************************************************************************)
EXTENDS Integers, Sequences, FiniteSets, TLC

VARIABLES
    cfg,        \* the session: scenario, registration order, single_start
    wm,         \* Planner.wm per agent (NoWM when None)
    inbox,      \* Planner.inbox per agent
    stopflag,   \* Planner.task_negotiation_stop per agent
    task,       \* position of Planner.process_inbox per agent
    net,        \* update() calls in flight, one FIFO per ordered pair
    reports,    \* update_stats calls in flight, one FIFO per agent
    det,        \* the observer's termination detector
    obs,        \* ObserverAgent negotiation state
    ctrl,       \* ControllerAgent.run_negotiation position and futures
    units,      \* set_schedule calls received per unit agent
    stopcall,   \* the controller's stop_negotiation call per agent
    errors,     \* exceptions and failed in-code assertions raised so far
    fn          \* inputs and result of a merge applied on its own

pvars == <<cfg, wm, inbox, stopflag, task, net, reports, det, obs, ctrl, units, stopcall, errors>>
vars == <<cfg, wm, inbox, stopflag, task, net, reports, det, obs, ctrl, units, stopcall, errors, fn>>

-----------------------------------------------------------------------------
(* Bounds and inputs *)

\* Largest counter value of a SystemConfig drawn as a merge input.
MaxCnt == 1

\* Largest number of update() calls in flight at once: an agent sends only
\* when its messages fit (delivery itself is never held back).
MaxInFlight == 2

\* Negotiations run one after the other in a session.
MaxRuns == 2

\* Agents handed to the topology manager.
MaxAgents == 4

Controller == 0
NoWM == [none |-> TRUE]
NoOS == <<>>
NoSid == -1
NoPerf == [none |-> TRUE]
NoSolution == [none |-> TRUE]
FnOff == [phase |-> "off"]

\* End-to-end scenarios: target, weights and each agent's possible schedules
\* (sid, os) in catalogue order; the utility is carried but never read.
Scenario1 ==
    [n |-> 1, ts |-> <<1, 1, 1, 1>>, weights |-> <<1, 1, 1, 1>>,
     ps |-> [a \in {1} |-> << [sid |-> 0, os |-> <<0, 0, 0, 0>>],
                              [sid |-> 1, os |-> <<1, 1, 1, 1>>] >>]]

Scenario2 ==
    [n |-> 2, ts |-> <<2, 2>>, weights |-> <<1, 1>>,
     ps |-> [a \in {1, 2} |->
               IF a = 1 THEN << [sid |-> 0, os |-> <<0, 0>>], [sid |-> 1, os |-> <<2, 0>>] >>
                        ELSE << [sid |-> 0, os |-> <<0, 0>>], [sid |-> 1, os |-> <<0, 2>>] >>]]

Scenario3 ==
    [n |-> 3, ts |-> <<2>>, weights |-> <<1>>,
     ps |-> [a \in {1, 2, 3} |-> << [sid |-> 0, os |-> <<1>>], [sid |-> 1, os |-> <<0>>] >>]]

\* Two agents whose simultaneous first moves produce a worse candidate
\* than the one each of them holds: target 4, A {0:[1], 1:[3]}, B {0:[1], 1:[2]}.
Scenario4 ==
    [n |-> 2, ts |-> <<4>>, weights |-> <<1>>,
     ps |-> [a \in {1, 2} |->
               IF a = 1 THEN << [sid |-> 0, os |-> <<1>>], [sid |-> 1, os |-> <<3>>] >>
                        ELSE << [sid |-> 0, os |-> <<1>>], [sid |-> 1, os |-> <<2>>] >>]]

\* Two agents, the first with two schedules that are equally good next to
\* the other's seed: target 2, A {0:[0], 1:[1], 2:[3]}, B {0:[0], 1:[1]}.
Scenario5 ==
    [n |-> 2, ts |-> <<2>>, weights |-> <<1>>,
     ps |-> [a \in {1, 2} |->
               IF a = 1 THEN << [sid |-> 0, os |-> <<0>>], [sid |-> 1, os |-> <<1>>],
                                [sid |-> 2, os |-> <<3>>] >>
                        ELSE << [sid |-> 0, os |-> <<0>>], [sid |-> 1, os |-> <<1>>] >>]]

Scenarios == {Scenario1, Scenario2, Scenario3, Scenario4}

AgentsOf(scn) == 1 .. scn.n

-----------------------------------------------------------------------------
(* Helpers for dense, sorted index maps *)

\* As Rank, but counting from the greatest name down.
RankDescending(K, a) == Cardinality({b \in K : b > a})

\* Position of a in sorted(K): enumerate(sorted(keyset_i | keyset_j)).
Rank(K, a) == Cardinality({b \in K : b < a})

AgentAt(K, i) == CHOOSE a \in K : Rank(K, a) = i

Abs(x) == IF x < 0 THEN -x ELSE x

RECURSIVE SumRows(_, _, _)
\* cluster_schedule.sum(axis=0)[t], rows 0 .. k-1
SumRows(cs, k, t) == IF k = 0 THEN 0 ELSE cs[k - 1][t] + SumRows(cs, k - 1, t)

RECURSIVE SumDev(_, _, _, _)
SumDev(cs, ts, weights, t) ==
    IF t = 0 THEN 0
    ELSE Abs(ts[t] - SumRows(cs, Cardinality(DOMAIN cs), t)) * weights[t]
         + SumDev(cs, ts, weights, t - 1)

\* As Objective, but the weighted deviation itself (not negated).
ObjectiveDeviation(cs, ts, weights) == SumDev(cs, ts, weights, Len(ts))

\* WorkingMemory.objective_function
Objective(cs, ts, weights) == -SumDev(cs, ts, weights, Len(ts))

-----------------------------------------------------------------------------
(* SystemConfig *)

\* SystemConfig.data
SCData(sc, agent) ==
    LET i == sc.idx[agent]
    IN  [os |-> sc.cs[i], sid |-> sc.sids[i], count |-> sc.cnt[i]]

\* One iteration of the loop of SystemConfig.merge for agent a:
\* i's entry if present, overwritten by j's when j's counter is newer.
SCMergeEntryNewerOrEqual(sci, scj, a) ==
    LET base == IF a \in DOMAIN sci.idx THEN SCData(sci, a)
                ELSE [os |-> NoOS, sid |-> NoSid, count |-> -1]
    IN  IF a \in DOMAIN scj.idx /\ SCData(scj, a).count >= base.count
        THEN [data |-> SCData(scj, a), modified |-> TRUE]
        ELSE [data |-> base, modified |-> FALSE]

\* As SCMergeEntry, but j's entry is taken only for an agent unknown to i.
SCMergeEntryKeepKnown(sci, scj, a) ==
    IF a \in DOMAIN sci.idx
    THEN [data |-> SCData(sci, a), modified |-> FALSE]
    ELSE [data |-> SCData(scj, a), modified |-> TRUE]

SCMergeEntry(sci, scj, a) ==
    LET base == IF a \in DOMAIN sci.idx THEN SCData(sci, a)
                ELSE [os |-> NoOS, sid |-> NoSid, count |-> -1]
    IN  IF a \in DOMAIN scj.idx /\ SCData(scj, a).count > base.count
        THEN [data |-> SCData(scj, a), modified |-> TRUE]
        ELSE [data |-> base, modified |-> FALSE]

\* As SCMerge, but built over the agents known to i only.
SCMergeKnownKeys(sci, scj) ==
    LET K == DOMAIN sci.idx
        k == Cardinality(K)
        e(a) == SCMergeEntry(sci, scj, a)
        modified == \E a \in K : e(a).modified
        new == [idx  |-> [a \in K |-> Rank(K, a)],
                cs   |-> [i \in 0 .. k - 1 |-> e(AgentAt(K, i)).data.os],
                sids |-> [i \in 0 .. k - 1 |-> e(AgentAt(K, i)).data.sid],
                cnt  |-> [i \in 0 .. k - 1 |-> e(AgentAt(K, i)).data.count]]
    IN  IF modified THEN [sc |-> new, is_i |-> FALSE]
                    ELSE [sc |-> sci, is_i |-> TRUE]

\* SystemConfig.merge.  is_i is TRUE when the very instance sysconf_i is
\* returned (modified stayed False), FALSE when a new instance is built.
SCMerge(sci, scj) ==
    LET K == DOMAIN sci.idx \cup DOMAIN scj.idx
        k == Cardinality(K)
        e(a) == SCMergeEntry(sci, scj, a)
        modified == \E a \in K : e(a).modified
        new == [idx  |-> [a \in K |-> Rank(K, a)],
                cs   |-> [i \in 0 .. k - 1 |-> e(AgentAt(K, i)).data.os],
                sids |-> [i \in 0 .. k - 1 |-> e(AgentAt(K, i)).data.sid],
                cnt  |-> [i \in 0 .. k - 1 |-> e(AgentAt(K, i)).data.count]]
    IN  IF modified THEN [sc |-> new, is_i |-> FALSE]
                    ELSE [sc |-> sci, is_i |-> TRUE]

\* As SCUpdate, but the agent's counter is left as it is.
SCUpdateKeepCount(sc, agent, os, sid) ==
    LET i == sc.idx[agent]
    IN  [idx  |-> sc.idx,
         cs   |-> [sc.cs EXCEPT ![i] = os],
         sids |-> [sc.sids EXCEPT ![i] = sid],
         cnt  |-> sc.cnt]

\* SystemConfig.update
SCUpdate(sc, agent, os, sid) ==
    LET i == sc.idx[agent]
    IN  [idx  |-> sc.idx,
         cs   |-> [sc.cs EXCEPT ![i] = os],
         sids |-> [sc.sids EXCEPT ![i] = sid],
         cnt  |-> [sc.cnt EXCEPT ![i] = @ + 1]]

\* A call of SystemConfig.update: the instance returned (ret) and the
\* instance it was called on as it is after the call (self).  idx, cs, sids
\* and cnt are copied before they are written, so self keeps its fields.
SCUpdateCall(sc, agent, os, sid) ==
    [ret |-> SCUpdate(sc, agent, os, sid), self |-> sc]

-----------------------------------------------------------------------------
(* Candidate *)

\* Candidate.data
CandData(c, agent) ==
    LET i == c.idx[agent]
    IN  [os |-> c.cs[i], sid |-> c.sids[i]]

\* Candidate.update
CandUpdate(c, agent, os, sid, ts, weights) ==
    LET i  == c.idx[agent]
        cs == [c.cs EXCEPT ![i] = os]
    IN  [agent |-> agent, idx |-> c.idx, cs |-> cs,
         sids |-> [c.sids EXCEPT ![i] = sid],
         perf |-> Objective(cs, ts, weights)]

\* As CandUnion, but j's data is taken for every agent j knows.
CandUnionPreferJ(ci, cj, agent, ts, weights) ==
    LET K == DOMAIN ci.idx \cup DOMAIN cj.idx
        k == Cardinality(K)
        d(a) == IF a \in DOMAIN cj.idx THEN CandData(cj, a) ELSE CandData(ci, a)
        cs == [i \in 0 .. k - 1 |-> d(AgentAt(K, i)).os]
    IN  [agent |-> agent,
         idx   |-> [a \in K |-> Rank(K, a)],
         cs    |-> cs,
         sids  |-> [i \in 0 .. k - 1 |-> d(AgentAt(K, i)).sid],
         perf  |-> Objective(cs, ts, weights)]

\* As CandUnion, but built over j's key set only.
CandUnionKeysOfJ(ci, cj, agent, ts, weights) ==
    LET K == DOMAIN cj.idx
        k == Cardinality(K)
        d(a) == IF a \in DOMAIN ci.idx THEN CandData(ci, a) ELSE CandData(cj, a)
        cs == [i \in 0 .. k - 1 |-> d(AgentAt(K, i)).os]
    IN  [agent |-> agent,
         idx   |-> [a \in K |-> Rank(K, a)],
         cs    |-> cs,
         sids  |-> [i \in 0 .. k - 1 |-> d(AgentAt(K, i)).sid],
         perf  |-> Objective(cs, ts, weights)]

\* The last branch of Candidate.merge: a new candidate authored by agent
\* over both key sets, i's data where i knows the agent, j's otherwise.
CandUnion(ci, cj, agent, ts, weights) ==
    LET K == DOMAIN ci.idx \cup DOMAIN cj.idx
        k == Cardinality(K)
        d(a) == IF a \in DOMAIN ci.idx THEN CandData(ci, a) ELSE CandData(cj, a)
        cs == [i \in 0 .. k - 1 |-> d(AgentAt(K, i)).os]
    IN  [agent |-> agent,
         idx   |-> [a \in K |-> Rank(K, a)],
         cs    |-> cs,
         sids  |-> [i \in 0 .. k - 1 |-> d(AgentAt(K, i)).sid],
         perf  |-> Objective(cs, ts, weights)]

\* As CandMerge, but on equal key sets j is taken when it performs worse.
CandMergeLowerPerf(ci, cj, agent, ts, weights) ==
    LET Ki == DOMAIN ci.idx
        Kj == DOMAIN cj.idx
    IN  IF Ki \subseteq Kj /\ Ki # Kj
        THEN [c |-> cj, is_i |-> FALSE]
        ELSE IF Ki = Kj
        THEN IF cj.perf < ci.perf
             THEN [c |-> cj, is_i |-> FALSE]
             ELSE IF cj.perf = ci.perf /\ cj.agent < ci.agent
                  THEN [c |-> cj, is_i |-> FALSE]
                  ELSE [c |-> ci, is_i |-> TRUE]
        ELSE IF Kj \ Ki # {}
        THEN [c |-> CandUnion(ci, cj, agent, ts, weights), is_i |-> FALSE]
        ELSE [c |-> ci, is_i |-> TRUE]

\* As CandMerge, but a tie on perf goes to j also when the authors are equal.
CandMergeTieOrEqual(ci, cj, agent, ts, weights) ==
    LET Ki == DOMAIN ci.idx
        Kj == DOMAIN cj.idx
    IN  IF Ki \subseteq Kj /\ Ki # Kj
        THEN [c |-> cj, is_i |-> FALSE]
        ELSE IF Ki = Kj
        THEN IF cj.perf > ci.perf
             THEN [c |-> cj, is_i |-> FALSE]
             ELSE IF cj.perf = ci.perf /\ cj.agent <= ci.agent
                  THEN [c |-> cj, is_i |-> FALSE]
                  ELSE [c |-> ci, is_i |-> TRUE]
        ELSE IF Kj \ Ki # {}
        THEN [c |-> CandUnion(ci, cj, agent, ts, weights), is_i |-> FALSE]
        ELSE [c |-> ci, is_i |-> TRUE]

\* As CandMerge, but a tie on perf goes to the greater author name.
CandMergeTieGreater(ci, cj, agent, ts, weights) ==
    LET Ki == DOMAIN ci.idx
        Kj == DOMAIN cj.idx
    IN  IF Ki \subseteq Kj /\ Ki # Kj
        THEN [c |-> cj, is_i |-> FALSE]
        ELSE IF Ki = Kj
        THEN IF cj.perf > ci.perf
             THEN [c |-> cj, is_i |-> FALSE]
             ELSE IF cj.perf = ci.perf /\ cj.agent > ci.agent
                  THEN [c |-> cj, is_i |-> FALSE]
                  ELSE [c |-> ci, is_i |-> TRUE]
        ELSE IF Kj \ Ki # {}
        THEN [c |-> CandUnion(ci, cj, agent, ts, weights), is_i |-> FALSE]
        ELSE [c |-> ci, is_i |-> TRUE]

\* As CandMerge, but a larger j is taken only when it does not perform worse.
CandMergePerfFirst(ci, cj, agent, ts, weights) ==
    LET Ki == DOMAIN ci.idx
        Kj == DOMAIN cj.idx
    IN  IF Ki \subseteq Kj /\ Ki # Kj /\ cj.perf >= ci.perf
        THEN [c |-> cj, is_i |-> FALSE]
        ELSE IF Ki = Kj
        THEN IF cj.perf > ci.perf
             THEN [c |-> cj, is_i |-> FALSE]
             ELSE IF cj.perf = ci.perf /\ cj.agent < ci.agent
                  THEN [c |-> cj, is_i |-> FALSE]
                  ELSE [c |-> ci, is_i |-> TRUE]
        ELSE IF Kj \ Ki # {}
        THEN [c |-> CandUnion(ci, cj, agent, ts, weights), is_i |-> FALSE]
        ELSE [c |-> ci, is_i |-> TRUE]

\* Candidate.merge.  is_i is TRUE when the very instance candidate_i is
\* returned (no branch reassigned candidate).
CandMerge(ci, cj, agent, ts, weights) ==
    LET Ki == DOMAIN ci.idx
        Kj == DOMAIN cj.idx
    IN  IF Ki \subseteq Kj /\ Ki # Kj
        THEN [c |-> cj, is_i |-> FALSE]
        ELSE IF Ki = Kj
        THEN IF cj.perf > ci.perf
             THEN [c |-> cj, is_i |-> FALSE]
             ELSE IF cj.perf = ci.perf /\ cj.agent < ci.agent
                  THEN [c |-> cj, is_i |-> FALSE]
                  ELSE [c |-> ci, is_i |-> TRUE]
        ELSE IF Kj \ Ki # {}
        THEN [c |-> CandUnion(ci, cj, agent, ts, weights), is_i |-> FALSE]
        ELSE [c |-> ci, is_i |-> TRUE]


\* The agents a SystemConfig or Candidate has a row for (the keys of idx)
Keys(x) == DOMAIN x.idx

\* SystemConfig.__eq__
SCEq(x, y) ==
    /\ x.idx = y.idx
    /\ x.sids = y.sids
    /\ x.cnt = y.cnt
    /\ x.cs = y.cs

\* Candidate.__eq__
CandEq(x, y) ==
    /\ x.agent = y.agent
    /\ x.idx = y.idx
    /\ x.sids = y.sids
    /\ x.perf = y.perf
    /\ x.cs = y.cs

-----------------------------------------------------------------------------
(* Planner: perceive and decide *)

RECURSIVE ScanOSNotWorse(_, _, _, _, _, _, _)
\* As ScanOS, but a schedule as good as the best so far replaces it.
ScanOSNotWorse(ps, p, best, sysconf, name, ts, weights) ==
    IF p > Len(ps) THEN best
    ELSE LET new_s    == SCUpdate(sysconf, name, ps[p].os, ps[p].sid)
             Next(new_perf) == IF new_perf > best.perf \/ (best.found /\ new_perf = best.perf)
                               THEN [found |-> TRUE, perf |-> new_perf,
                                     os |-> ps[p].os, sid |-> ps[p].sid]
                               ELSE best
         IN  CHOOSE r \in {ScanOSNotWorse(ps, p + 1, next, sysconf, name, ts, weights) :
                              next \in {Next(new_perf) :
                                           new_perf \in {Objective(new_s.cs, ts, weights)}}} : TRUE

RECURSIVE ScanOS(_, _, _, _, _, _, _)
\* The loop of Planner._get_new_os from catalogue position p on: best is
\* the strictly best schedule found so far (found = new_candidate_found).
ScanOS(ps, p, best, sysconf, name, ts, weights) ==
    IF p > Len(ps) THEN best
    ELSE LET new_s    == SCUpdate(sysconf, name, ps[p].os, ps[p].sid)
             Next(new_perf) == IF new_perf > best.perf
                               THEN [found |-> TRUE, perf |-> new_perf,
                                     os |-> ps[p].os, sid |-> ps[p].sid]
                               ELSE best
         IN  CHOOSE r \in {ScanOS(ps, p + 1, next, sysconf, name, ts, weights) :
                              next \in {Next(new_perf) :
                                           new_perf \in {Objective(new_s.cs, ts, weights)}}} : TRUE

\* Planner._get_new_os
GetNewOS(current_best_perf, sysconf, name, ps, ts, weights) ==
    ScanOS(ps, 1, [found |-> FALSE, perf |-> current_best_perf, os |-> NoOS, sid |-> NoSid],
           sysconf, name, ts, weights)

\* As Decide, but the own row of the SC is updated only together with a
\* new candidate.
DecideCountOnNew(name, sysconf, candidate, ps, ts, weights) ==
    LET new == GetNewOS(candidate.perf, sysconf, name, ps, ts, weights)
    IN  IF ~new.found THEN [sysconf |-> sysconf, candidate |-> candidate]
        ELSE LET new_s == SCUpdate(sysconf, name, new.os, new.sid)
                 new_candidate == CandUpdate([agent |-> name, idx |-> new_s.idx, cs |-> new_s.cs,
                                              sids |-> new_s.sids, perf |-> NoPerf],
                                             name, new.os, new.sid, ts, weights)
             IN  IF new_candidate.perf > candidate.perf
                 THEN [sysconf |-> IF SCData(sysconf, name).sid # new.sid THEN new_s ELSE sysconf,
                       candidate |-> new_candidate]
                 ELSE [sysconf |-> sysconf, candidate |-> candidate]

\* As Decide, but without the search for a better own schedule.
DecideNoSearch(name, sysconf, candidate, ps, ts, weights) ==
    [sysconf |-> sysconf, candidate |-> candidate]

\* Planner._decide
Decide(name, sysconf, candidate, ps, ts, weights) ==
    LET current_sid   == SCData(sysconf, name).sid
        current_best  == CandData(candidate, name)
        NewCandidate(new) ==
            LET new_s == SCUpdate(sysconf, name, new.os, new.sid)
            IN  CandUpdate([agent |-> name, idx |-> new_s.idx, cs |-> new_s.cs,
                            sids |-> new_s.sids, perf |-> NoPerf],
                           name, new.os, new.sid, ts, weights)
        Result(new, new_candidate) ==
            LET adopt    == new.found /\ new_candidate.perf > candidate.perf
                cand2    == IF adopt THEN new_candidate ELSE candidate
                best_os  == IF adopt THEN new.os ELSE current_best.os
                best_sid == IF adopt THEN new.sid ELSE current_best.sid
                sc2      == IF current_sid # best_sid
                            THEN SCUpdate(sysconf, name, best_os, best_sid)
                            ELSE sysconf
            IN  [sysconf |-> sc2, candidate |-> cand2]
    IN  CHOOSE r \in UNION {{Result(new, new_candidate) :
                                new_candidate \in {IF new.found THEN NewCandidate(new)
                                                                ELSE candidate}} :
                             new \in {GetNewOS(candidate.perf, sysconf, name, ps, ts, weights)}} : TRUE

RECURSIVE PerceiveAll(_, _, _, _, _)
\* The message loop of process_inbox: _perceive folded over the drained
\* inbox.  sc_is / cand_is tell whether sysconf / candidate still are the
\* working memory's instances; ok is FALSE once an assertion of a merge
\* (result == x) == (result is x) has failed.
PerceiveAll(st, msgs, name, ts, weights) ==
    IF msgs = <<>> THEN st
    ELSE LET m  == Head(msgs)
             Perceived(ms, mc) ==
                 [sysconf   |-> ms.sc,
                  candidate |-> mc.c,
                  sc_is     |-> st.sc_is /\ ms.is_i,
                  cand_is   |-> st.cand_is /\ mc.is_i,
                  ok        |-> /\ st.ok
                                /\ SCEq(ms.sc, st.sysconf) = ms.is_i
                                /\ CandEq(mc.c, st.candidate) = mc.is_i]
         IN  CHOOSE r \in {PerceiveAll(nxt, Tail(msgs), name, ts, weights) :
                              nxt \in {Perceived(ms, mc) :
                                          ms \in {SCMerge(st.sysconf, m.sysconf)},
                                          mc \in {CandMerge(st.candidate, m.candidate,
                                                            name, ts, weights)}}} : TRUE

\* The initial SystemConfig and Candidate of store_topology: the first
\* possible schedule, counter 0.
InitialSC(name, ps) ==
    [idx  |-> [a \in {name} |-> 0],
     cs   |-> [i \in {0} |-> ps[1].os],
     sids |-> [i \in {0} |-> ps[1].sid],
     cnt  |-> [i \in {0} |-> 0]]

InitialCand(name, ps, ts, weights) ==
    LET cs == [i \in {0} |-> ps[1].os]
    IN  [agent |-> name,
         idx   |-> [a \in {name} |-> 0],
         cs    |-> cs,
         sids  |-> [i \in {0} |-> ps[1].sid],
         perf  |-> Objective(cs, ts, weights)]

-----------------------------------------------------------------------------
(* Topology, termination detector, observer *)

\* TopologyManager._build_ring on the agents sorted by address: left and
\* right neighbor modulo n; no neighbors for a single agent.
Neighbors(n, a) ==
    IF n = 1 THEN {}
    ELSE {((a - 2) % n) + 1, (a % n) + 1}

RECURSIVE SumOver(_, _)
SumOver(f, S) ==
    IF S = {} THEN 0
    ELSE LET a == CHOOSE x \in S : TRUE IN f[a] + SumOver(f, S \ {a})

\* TerminationDetector.reset
DetReset(A) ==
    [msgs_in |-> [a \in A |-> 0], msgs_out |-> [a \in A |-> 0],
     sum_in |-> 0, sum_out |-> 0, terminated |-> FALSE]

\* As DetUpdate, but raising terminated as soon as the sums are equal.
DetUpdateNoStability(d, agent, msgs_in, msgs_out) ==
    LET ins  == [d.msgs_in EXCEPT ![agent] = msgs_in]
        outs == [d.msgs_out EXCEPT ![agent] = msgs_out]
        si   == SumOver(ins, DOMAIN ins)
        so   == SumOver(outs, DOMAIN outs)
    IN  [msgs_in |-> ins, msgs_out |-> outs, sum_in |-> si, sum_out |-> so,
         terminated |-> d.terminated \/ si = so]

\* As DetUpdate, but raising terminated when the sums are equal in two
\* successive updates, whether or not they changed in between.
DetUpdateEqualTwice(d, agent, msgs_in, msgs_out) ==
    LET ins  == [d.msgs_in EXCEPT ![agent] = msgs_in]
        outs == [d.msgs_out EXCEPT ![agent] = msgs_out]
        si   == SumOver(ins, DOMAIN ins)
        so   == SumOver(outs, DOMAIN outs)
    IN  [msgs_in |-> ins, msgs_out |-> outs, sum_in |-> si, sum_out |-> so,
         terminated |-> d.terminated \/ (si = so /\ d.sum_in = d.sum_out /\ si > 0)]

\* MessageCounter.update: store the agent's last report, recompute both
\* sums; terminated when they are equal and unchanged from the prior update.
DetUpdate(d, agent, msgs_in, msgs_out) ==
    LET ins  == [d.msgs_in EXCEPT ![agent] = msgs_in]
        outs == [d.msgs_out EXCEPT ![agent] = msgs_out]
        si   == SumOver(ins, DOMAIN ins)
        so   == SumOver(outs, DOMAIN outs)
    IN  [msgs_in |-> ins, msgs_out |-> outs, sum_in |-> si, sum_out |-> so,
         terminated |-> d.terminated \/ (si = so /\ si = d.sum_in /\ so = d.sum_out)]

RECURSIVE ReduceAsAuthor(_, _, _, _)
\* As Reduce, but merging in the name of the accumulated candidate's author.
ReduceAsAuthor(acc, cands, ts, weights) ==
    IF cands = <<>> THEN acc
    ELSE CHOOSE r \in {ReduceAsAuthor(merged, Tail(cands), ts, weights) :
                         merged \in {CandMerge(acc, Head(cands), acc.agent, ts, weights).c}} : TRUE

RECURSIVE Reduce(_, _, _, _)
\* functools.reduce(Candidate.merge(agent='controller'), candidates)
Reduce(acc, cands, ts, weights) ==
    IF cands = <<>> THEN acc
    ELSE CHOOSE r \in {Reduce(merged, Tail(cands), ts, weights) :
                         merged \in {CandMerge(acc, Head(cands), Controller, ts, weights).c}} : TRUE

\* As GetSolution, but the first buffered candidate is taken without merging.
GetSolutionFirst(terminated, candidates, ts, weights) ==
    [solution |-> candidates[1], ok |-> TRUE]

\* ObserverAgent._get_solution: [solution, ok]; ok is FALSE when the
\* equality assertion of the terminated path fails.
GetSolution(terminated, candidates, ts, weights) ==
    IF terminated
    THEN [solution |-> candidates[1],
          ok |-> \A i \in 2 .. Len(candidates) : CandEq(candidates[i], candidates[1])]
    ELSE [solution |-> Reduce(candidates[1], Tail(candidates), ts, weights), ok |-> TRUE]

-----------------------------------------------------------------------------
(* The negotiation *)

Agents == AgentsOf(cfg.scn)
\* The target of the running negotiation: the scenario's, and for a later
\* negotiation of a session the session's next target.
Ts == IF ctrl.run = 1 THEN cfg.scn.ts ELSE cfg.ts2
Weights == cfg.scn.weights

Perms(A) == {f \in [1 .. Cardinality(A) -> A] : \A a \in A : \E i \in DOMAIN f : f[i] = a}

\* The sessions checked.  order is the iteration order of the controller's
\* agent dict (registration order); single is negotiation_single_start;
\* neg_timeout is "any" for a negotiation_timeout that may expire at any
\* moment of the wait and "late" for one (like the default 15 * 60 s) that
\* expires only after the agents have gone quiet.
\* Up to two agents: every order, both start modes, timeout at any moment.
\* Scenario2 also with the late timeout.
\* Three agents: single start from each agent, the timeout at any moment
\* for the first of them.
Configs ==
    {[scn |-> scn, order |-> o, single |-> b, neg_timeout |-> "any"] :
        scn \in {Scenario1, Scenario2, Scenario4}, o \in Perms({1}) \cup Perms({1, 2}), b \in BOOLEAN}
    \cup
    {[scn |-> Scenario2, order |-> o, single |-> b, neg_timeout |-> "late"] :
        o \in Perms({1, 2}), b \in BOOLEAN}
    \cup
    {[scn |-> Scenario3, order |-> <<1, 2, 3>>, single |-> TRUE, neg_timeout |-> "any"],
     [scn |-> Scenario3, order |-> <<2, 3, 1>>, single |-> TRUE, neg_timeout |-> "late"],
     [scn |-> Scenario3, order |-> <<3, 1, 2>>, single |-> TRUE, neg_timeout |-> "late"]}

Init ==
    /\ cfg \in {c \in Configs : c.order \in Perms(AgentsOf(c.scn))}
    /\ wm = [a \in Agents |-> NoWM]
    /\ inbox = [a \in Agents |-> <<>>]
    /\ stopflag = [a \in Agents |-> FALSE]
    /\ task = [a \in Agents |-> "none"]
    /\ net = [e \in Agents \X Agents |-> <<>>]
    /\ reports = [a \in Agents |-> <<>>]
    /\ det = DetReset(Agents)
    /\ obs = [candidates |-> <<>>, solution |-> NoSolution, determined |-> FALSE,
              terminated |-> FALSE, notified |-> FALSE]
    /\ ctrl = [pc |-> "idle", i |-> 1, neg_done |-> "none", final |-> NoSolution, run |-> 1]
    /\ units = [a \in Agents |-> <<>>]
    /\ stopcall = [a \in Agents |-> "none"]
    /\ errors = {}
    /\ fn = FnOff

Message(a) == [sysconf |-> wm[a].sysconf, candidate |-> wm[a].candidate]

RECURSIVE TotalLen(_, _)
TotalLen(f, S) ==
    IF S = {} THEN 0
    ELSE LET e == CHOOSE x \in S : TRUE IN Len(f[e]) + TotalLen(f, S \ {e})

InFlight == TotalLen(net, DOMAIN net)

\* No message in flight, every inbox empty, no report under way.
Settled ==
    /\ \A e \in DOMAIN net : net[e] = <<>>
    /\ \A a \in Agents : inbox[a] = <<>> /\ reports[a] = <<>>

\* Room for k more calls in flight.
Room(k) == InFlight + k <= MaxInFlight

\* run_negotiation up to start_observation: a fresh done future, the
\* detector reset, the observer's negotiation setup reset.
CtrlStartObservation ==
    /\ ctrl.pc = "idle"
    /\ ctrl' = [ctrl EXCEPT !.pc = "store", !.i = 1, !.neg_done = "pending"]
    /\ det' = DetReset(Agents)
    /\ obs' = [obs EXCEPT !.candidates = <<>>, !.solution = NoSolution,
                          !.determined = FALSE, !.notified = FALSE]
    /\ UNCHANGED <<cfg, wm, inbox, stopflag, task, net, reports, units, stopcall, errors, fn>>

\* As CtrlStoreTopology, but init_negotiation follows the first agent's
\* store_topology.
CtrlStoreTopologyFirstOnly ==
    /\ ctrl.pc = "store"
    /\ LET a == cfg.order[ctrl.i]
       IN  /\ wm' = [wm EXCEPT ![a] =
                       [sysconf   |-> InitialSC(a, cfg.scn.ps[a]),
                        candidate |-> InitialCand(a, cfg.scn.ps[a], Ts, Weights),
                        msgs_in   |-> 0,
                        msgs_out  |-> 0]]
           /\ stopflag' = [stopflag EXCEPT ![a] = FALSE]
           /\ task' = [task EXCEPT ![a] = "sleep"]
    /\ ctrl' = [ctrl EXCEPT !.pc = "init", !.i = 1]
    /\ UNCHANGED <<cfg, inbox, net, reports, det, obs, units, stopcall, errors, fn>>

\* new_negotiation and store_topology on the next registered agent.
CtrlStoreTopology ==
    /\ ctrl.pc = "store"
    /\ LET a == cfg.order[ctrl.i]
       IN  /\ wm' = [wm EXCEPT ![a] =
                       [sysconf   |-> InitialSC(a, cfg.scn.ps[a]),
                        candidate |-> InitialCand(a, cfg.scn.ps[a], Ts, Weights),
                        msgs_in   |-> 0,
                        msgs_out  |-> 0]]
           /\ stopflag' = [stopflag EXCEPT ![a] = FALSE]
           /\ task' = [task EXCEPT ![a] = "sleep"]
    /\ ctrl' = IF ctrl.i = Len(cfg.order)
               THEN [ctrl EXCEPT !.pc = "init", !.i = 1]
               ELSE [ctrl EXCEPT !.i = @ + 1]
    /\ UNCHANGED <<cfg, inbox, net, reports, det, obs, units, stopcall, errors, fn>>

\* Planner.init_negotiation on the next agent: (sysconf, candidate) to
\* every neighbor, then the observer is informed (msg_sent = True).
CtrlInitNegotiation ==
    /\ ctrl.pc = "init"
    /\ LET a   == cfg.order[ctrl.i]
           N   == Neighbors(cfg.scn.n, a)
           out == wm[a].msgs_out + Cardinality(N)
       IN  /\ Room(Cardinality(N))
           /\ net' = [e \in DOMAIN net |->
                        IF e[1] = a /\ e[2] \in N THEN Append(net[e], Message(a)) ELSE net[e]]
           /\ wm' = [wm EXCEPT ![a].msgs_out = out]
           /\ reports' = [reports EXCEPT ![a] =
                            Append(@, [kind |-> "init", msgs_in |-> wm[a].msgs_in,
                                       msgs_out |-> out, msg_sent |-> TRUE])]
    /\ ctrl' = [ctrl EXCEPT !.pc = "init_wait"]
    /\ UNCHANGED <<cfg, inbox, stopflag, task, det, obs, units, stopcall, errors, fn>>

\* As ObsUpdateStats, but the inbox is emptied when a tick's report
\* returns (the inbox reset after processing, not swapped before it).
ObsUpdateStatsResetInbox(a) ==
    /\ reports[a] # <<>>
    /\ LET r == Head(reports[a])
       IN  /\ det' = DetUpdate(det, a, r.msgs_in, r.msgs_out)
           /\ IF r.kind = "tick"
              THEN /\ task' = [task EXCEPT ![a] = IF stopflag[a] THEN "done" ELSE "sleep"]
                   /\ ctrl' = ctrl
              ELSE /\ task' = task
                   /\ ctrl' = IF cfg.single \/ ctrl.i = Len(cfg.order)
                              THEN [ctrl EXCEPT !.pc = "wait"]
                              ELSE [ctrl EXCEPT !.pc = "init", !.i = @ + 1]
    /\ reports' = [reports EXCEPT ![a] = Tail(@)]
    /\ inbox' = IF Head(reports[a]).kind = "tick" THEN [inbox EXCEPT ![a] = <<>>] ELSE inbox
    /\ UNCHANGED <<cfg, wm, stopflag, net, obs, units, stopcall, errors, fn>>

\* As ObsUpdateStats, but the controller's loop over the agents goes on
\* after the first init_negotiation whatever negotiation_single_start says.
ObsUpdateStatsNoBreak(a) ==
    /\ reports[a] # <<>>
    /\ LET r == Head(reports[a])
       IN  /\ det' = DetUpdate(det, a, r.msgs_in, r.msgs_out)
           /\ IF r.kind = "tick"
              THEN /\ task' = [task EXCEPT ![a] = IF stopflag[a] THEN "done" ELSE "sleep"]
                   /\ ctrl' = ctrl
              ELSE /\ task' = task
                   /\ ctrl' = IF ctrl.i = Len(cfg.order)
                              THEN [ctrl EXCEPT !.pc = "wait"]
                              ELSE [ctrl EXCEPT !.pc = "init", !.i = @ + 1]
    /\ reports' = [reports EXCEPT ![a] = Tail(@)]
    /\ UNCHANGED <<cfg, wm, inbox, stopflag, net, obs, units, stopcall, errors, fn>>

\* ObserverAgent.update_stats for the oldest report of agent a, and the
\* return of the call: process_inbox goes back to its loop head, or the
\* controller's init_negotiation call returns.
ObsUpdateStats(a) ==
    /\ reports[a] # <<>>
    /\ LET r == Head(reports[a])
       IN  /\ det' = DetUpdate(det, a, r.msgs_in, r.msgs_out)
           /\ IF r.kind = "tick"
              THEN /\ task' = [task EXCEPT ![a] = IF stopflag[a] THEN "done" ELSE "sleep"]
                   /\ ctrl' = ctrl
              ELSE /\ task' = task
                   /\ ctrl' = IF cfg.single \/ ctrl.i = Len(cfg.order)
                              THEN [ctrl EXCEPT !.pc = "wait"]
                              ELSE [ctrl EXCEPT !.pc = "init", !.i = @ + 1]
    /\ reports' = [reports EXCEPT ![a] = Tail(@)]
    /\ UNCHANGED <<cfg, wm, inbox, stopflag, net, obs, units, stopcall, errors, fn>>

\* Planner.update: the oldest call in flight from a to b reaches b.
Deliver(a, b) ==
    /\ net[<<a, b>>] # <<>>
    /\ inbox' = [inbox EXCEPT ![b] = Append(@, Head(net[<<a, b>>]))]
    /\ net' = [net EXCEPT ![<<a, b>>] = Tail(@)]
    /\ UNCHANGED <<cfg, wm, stopflag, task, reports, det, obs, ctrl, units, stopcall, errors, fn>>

\* As TickEmpty, but an empty inbox ends the task (break for continue).
TickEmptyBreak(a) ==
    /\ task[a] = "sleep"
    /\ inbox[a] = <<>>
    /\ task' = [task EXCEPT ![a] = "done"]
    /\ UNCHANGED <<cfg, wm, inbox, stopflag, net, reports, det, obs, ctrl, units, stopcall, errors, fn>>

\* One pass of the loop of process_inbox after its sleep, with an empty
\* inbox: back to the loop head, where the stop flag ends the task.
TickEmpty(a) ==
    /\ task[a] = "sleep"
    /\ inbox[a] = <<>>
    /\ stopflag[a]
    /\ task' = [task EXCEPT ![a] = "done"]
    /\ UNCHANGED <<cfg, wm, inbox, stopflag, net, reports, det, obs, ctrl, units, stopcall, errors, fn>>

\* As Tick, but _act is called whether or not something changed.
TickActAlways(a) ==
    /\ task[a] = "sleep"
    /\ inbox[a] # <<>>
    /\ \E st \in {PerceiveAll([sysconf |-> wm[a].sysconf, candidate |-> wm[a].candidate,
                               sc_is |-> TRUE, cand_is |-> TRUE, ok |-> TRUE],
                              inbox[a], a, Ts, Weights)} :
       \E dec \in {Decide(a, st.sysconf, st.candidate, cfg.scn.ps[a], Ts, Weights)} :
       \E state_changed \in {~st.sc_is \/ ~st.cand_is} :
       LET N   == Neighbors(cfg.scn.n, a)
           msgs_in  == wm[a].msgs_in + Len(inbox[a])
           msgs_out == wm[a].msgs_out + Cardinality(N)
       IN  /\ Room(Cardinality(N))
           /\ IF ~st.ok
              THEN /\ errors' = errors \cup {"AssertionError"}
                   /\ task' = [task EXCEPT ![a] = "failed"]
                   /\ wm' = [wm EXCEPT ![a].msgs_in = msgs_in]
                   /\ UNCHANGED <<net, reports>>
              ELSE /\ wm' = [wm EXCEPT ![a] =
                               [sysconf   |-> IF state_changed THEN dec.sysconf ELSE wm[a].sysconf,
                                candidate |-> IF state_changed THEN dec.candidate ELSE wm[a].candidate,
                                msgs_in   |-> msgs_in,
                                msgs_out  |-> msgs_out]]
                   /\ net' = [e \in DOMAIN net |->
                                IF e[1] = a /\ e[2] \in N
                                THEN Append(net[e], [sysconf   |-> IF state_changed THEN dec.sysconf
                                                                   ELSE wm[a].sysconf,
                                                     candidate |-> IF state_changed THEN dec.candidate
                                                                   ELSE wm[a].candidate])
                                ELSE net[e]]
                   /\ reports' = [reports EXCEPT ![a] =
                                    Append(@, [kind |-> "tick", msgs_in |-> msgs_in,
                                               msgs_out |-> msgs_out, msg_sent |-> state_changed])]
                   /\ task' = [task EXCEPT ![a] = "report"]
                   /\ errors' = errors
    /\ inbox' = [inbox EXCEPT ![a] = <<>>]
    /\ UNCHANGED <<cfg, stopflag, det, obs, ctrl, units, stopcall, fn>>

\* One pass of the loop of process_inbox after its sleep, with messages:
\* drain, perceive, decide and act if something changed, inform the observer.
Tick(a) ==
    /\ task[a] = "sleep"
    /\ inbox[a] # <<>>
    /\ \E st \in {PerceiveAll([sysconf |-> wm[a].sysconf, candidate |-> wm[a].candidate,
                               sc_is |-> TRUE, cand_is |-> TRUE, ok |-> TRUE],
                              inbox[a], a, Ts, Weights)} :
       \E dec \in {Decide(a, st.sysconf, st.candidate, cfg.scn.ps[a], Ts, Weights)} :
       \E state_changed \in {~st.sc_is \/ ~st.cand_is} :
       LET N   == Neighbors(cfg.scn.n, a)
           msgs_in  == wm[a].msgs_in + Len(inbox[a])
           msgs_out == IF state_changed THEN wm[a].msgs_out + Cardinality(N) ELSE wm[a].msgs_out
       IN  /\ state_changed => Room(Cardinality(N))
           /\ IF ~st.ok
              THEN /\ errors' = errors \cup {"AssertionError"}
                   /\ task' = [task EXCEPT ![a] = "failed"]
                   /\ wm' = [wm EXCEPT ![a].msgs_in = msgs_in]
                   /\ UNCHANGED <<net, reports>>
              ELSE /\ wm' = [wm EXCEPT ![a] =
                               [sysconf   |-> IF state_changed THEN dec.sysconf ELSE wm[a].sysconf,
                                candidate |-> IF state_changed THEN dec.candidate ELSE wm[a].candidate,
                                msgs_in   |-> msgs_in,
                                msgs_out  |-> msgs_out]]
                   /\ net' = [e \in DOMAIN net |->
                                IF state_changed /\ e[1] = a /\ e[2] \in N
                                THEN Append(net[e], [sysconf |-> dec.sysconf, candidate |-> dec.candidate])
                                ELSE net[e]]
                   /\ reports' = [reports EXCEPT ![a] =
                                    Append(@, [kind |-> "tick", msgs_in |-> msgs_in,
                                               msgs_out |-> msgs_out, msg_sent |-> state_changed])]
                   /\ task' = [task EXCEPT ![a] = "report"]
                   /\ errors' = errors
    /\ inbox' = [inbox EXCEPT ![a] = <<>>]
    /\ UNCHANGED <<cfg, stopflag, det, obs, ctrl, units, stopcall, fn>>

\* ObserverAgent._wait_finish_neg once the detector's future is set:
\* ControllerAgent.negotiation_finished resolves the done future.
ObsNotifyFinished ==
    /\ det.terminated
    /\ ~obs.notified
    /\ obs' = [obs EXCEPT !.notified = TRUE]
    /\ IF ctrl.neg_done = "pending"
       THEN ctrl' = [ctrl EXCEPT !.neg_done = "done"] /\ errors' = errors
       ELSE ctrl' = ctrl /\ errors' = errors \cup {"InvalidStateError"}
    /\ UNCHANGED <<cfg, wm, inbox, stopflag, task, net, reports, det, units, stopcall, fn>>

\* wait_for returns because the done future is resolved; stop_negotiation
\* is called on every agent.
CtrlWaitDone ==
    /\ ctrl.pc = "wait"
    /\ ctrl.neg_done = "done"
    /\ ctrl' = [ctrl EXCEPT !.pc = "stop"]
    /\ stopcall' = [a \in Agents |-> "sent"]
    /\ UNCHANGED <<cfg, wm, inbox, stopflag, task, net, reports, det, obs, units, errors, fn>>

\* wait_for runs into neg_timeout: it cancels the done future;
\* stop_negotiation is called on every agent.
CtrlTimeout ==
    /\ ctrl.pc = "wait"
    /\ ctrl.neg_done = "pending"
    /\ cfg.neg_timeout = "late" => Settled
    /\ ctrl' = [ctrl EXCEPT !.pc = "stop", !.neg_done = "cancelled"]
    /\ stopcall' = [a \in Agents |-> "sent"]
    /\ UNCHANGED <<cfg, wm, inbox, stopflag, task, net, reports, det, obs, units, errors, fn>>

\* As AgentStopStart, but the stop flag is left as it is.
AgentStopStartNoFlag(a) ==
    /\ stopcall[a] = "sent"
    /\ stopcall' = [stopcall EXCEPT ![a] = "recv"]
    /\ UNCHANGED <<cfg, wm, inbox, stopflag, task, net, reports, det, obs, ctrl, units, errors, fn>>

\* Planner.stop_negotiation up to its await of the inbox task.
AgentStopStart(a) ==
    /\ stopcall[a] = "sent"
    /\ stopcall' = [stopcall EXCEPT ![a] = "recv"]
    /\ stopflag' = [stopflag EXCEPT ![a] = TRUE]
    /\ UNCHANGED <<cfg, wm, inbox, task, net, reports, det, obs, ctrl, units, errors, fn>>

\* As AgentStopFinish, but the solution is determined from the first
\* candidate on.
AgentStopFinishEarly(a) ==
    /\ stopcall[a] = "recv"
    /\ task[a] \in {"done", "failed"}
    /\ IF task[a] = "failed"
       THEN /\ stopcall' = [stopcall EXCEPT ![a] = "failed"]
            /\ UNCHANGED <<wm, inbox, obs, errors>>
       ELSE /\ stopcall' = [stopcall EXCEPT ![a] = "done"]
            /\ inbox' = [inbox EXCEPT ![a] = <<>>]
            /\ wm' = [wm EXCEPT ![a] = NoWM]
            /\ LET cands == Append(obs.candidates, wm[a].candidate)
                   sol   == GetSolution(obs.terminated, cands, Ts, Weights)
               IN  /\ obs' = [obs EXCEPT !.candidates = cands,
                                         !.solution = sol.solution,
                                         !.determined = sol.ok]
                   /\ errors' = IF sol.ok THEN errors ELSE errors \cup {"AssertionError"}
    /\ UNCHANGED <<cfg, stopflag, task, net, reports, det, ctrl, units, fn>>

\* As AgentStopFinish, but without waiting for the inbox task to end.
AgentStopFinishNoAwait(a) ==
    /\ stopcall[a] = "recv"
    /\ IF task[a] = "failed"
       THEN /\ stopcall' = [stopcall EXCEPT ![a] = "failed"]
            /\ UNCHANGED <<wm, inbox, obs, errors>>
       ELSE /\ stopcall' = [stopcall EXCEPT ![a] = "done"]
            /\ inbox' = [inbox EXCEPT ![a] = <<>>]
            /\ wm' = [wm EXCEPT ![a] = NoWM]
            /\ LET cands == Append(obs.candidates, wm[a].candidate)
                   sol   == GetSolution(obs.terminated, cands, Ts, Weights)
               IN  IF Len(cands) = Cardinality(Agents)
                   THEN /\ obs' = [obs EXCEPT !.candidates = cands,
                                              !.solution = sol.solution,
                                              !.determined = sol.ok]
                        /\ errors' = IF sol.ok THEN errors ELSE errors \cup {"AssertionError"}
                   ELSE /\ obs' = [obs EXCEPT !.candidates = cands]
                        /\ errors' = errors
    /\ UNCHANGED <<cfg, stopflag, task, net, reports, det, ctrl, units, fn>>

\* Planner.stop_negotiation after the inbox task has ended: inbox and
\* working memory cleared, the candidate handed to update_final_cand,
\* which determines the solution once every agent's candidate is there.
AgentStopFinish(a) ==
    /\ stopcall[a] = "recv"
    /\ task[a] \in {"done", "failed"}
    /\ IF task[a] = "failed"
       THEN /\ stopcall' = [stopcall EXCEPT ![a] = "failed"]
            /\ UNCHANGED <<wm, inbox, obs, errors>>
       ELSE /\ stopcall' = [stopcall EXCEPT ![a] = "done"]
            /\ inbox' = [inbox EXCEPT ![a] = <<>>]
            /\ wm' = [wm EXCEPT ![a] = NoWM]
            /\ LET cands == Append(obs.candidates, wm[a].candidate)
                   sol   == GetSolution(obs.terminated, cands, Ts, Weights)
               IN  IF Len(cands) = Cardinality(Agents)
                   THEN /\ obs' = [obs EXCEPT !.candidates = cands,
                                              !.solution = sol.solution,
                                              !.determined = sol.ok]
                        /\ errors' = IF sol.ok THEN errors ELSE errors \cup {"AssertionError"}
                   ELSE /\ obs' = [obs EXCEPT !.candidates = cands]
                        /\ errors' = errors
    /\ UNCHANGED <<cfg, stopflag, task, net, reports, det, ctrl, units, fn>>

\* The gather of the stop calls is complete; pass_solution returns the
\* observer's solution.
CtrlPassSolution ==
    /\ ctrl.pc = "stop"
    /\ \A a \in Agents : stopcall[a] = "done"
    /\ obs.determined
    /\ ctrl' = [ctrl EXCEPT !.pc = "broadcast", !.final = obs.solution]
    /\ UNCHANGED <<cfg, wm, inbox, stopflag, task, net, reports, det, obs, units, stopcall, errors, fn>>

\* ControllerAgent._broadcast_solution: set_schedule on every agent with
\* solution.sids[solution.idx[addr]]; a missing key raises before any call.
CtrlBroadcast ==
    /\ ctrl.pc = "broadcast"
    /\ IF \A a \in Agents : a \in DOMAIN ctrl.final.idx
       THEN /\ units' = [a \in Agents |->
                           Append(units[a], ctrl.final.sids[ctrl.final.idx[a]])]
            /\ ctrl' = [ctrl EXCEPT !.pc = "done"]
            /\ errors' = errors
       ELSE /\ units' = units
            /\ ctrl' = [ctrl EXCEPT !.pc = "failed"]
            /\ errors' = errors \cup {"KeyError"}
    /\ UNCHANGED <<cfg, wm, inbox, stopflag, task, net, reports, det, obs, stopcall, fn>>

Next ==
    \/ CtrlStartObservation
    \/ CtrlStoreTopology
    \/ CtrlInitNegotiation
    \/ \E a \in Agents : ObsUpdateStats(a)
    \/ \E a \in Agents, b \in Agents : Deliver(a, b)
    \/ \E a \in Agents : TickEmpty(a)
    \/ \E a \in Agents : Tick(a)
    \/ ObsNotifyFinished
    \/ CtrlWaitDone
    \/ CtrlTimeout
    \/ \E a \in Agents : AgentStopStart(a)
    \/ \E a \in Agents : AgentStopFinish(a)
    \/ CtrlPassSolution
    \/ CtrlBroadcast

Spec == Init /\ [][Next]_vars

-----------------------------------------------------------------------------
(* A session: run_negotiation called again after it returned *)

\* One agent, and two agents with single start; the timeout at any moment;
\* a different target for the second negotiation (NEGOTIATIONS of the
\* standalone runner).
SessionConfigs ==
    {[scn |-> Scenario1, order |-> <<1>>, single |-> TRUE, neg_timeout |-> "any",
      ts2 |-> <<0, 0, 0, 0>>],
     [scn |-> Scenario2, order |-> <<1, 2>>, single |-> TRUE, neg_timeout |-> "any",
      ts2 |-> <<4, 4>>]}

InitSession ==
    /\ cfg \in SessionConfigs
    /\ wm = [a \in Agents |-> NoWM]
    /\ inbox = [a \in Agents |-> <<>>]
    /\ stopflag = [a \in Agents |-> FALSE]
    /\ task = [a \in Agents |-> "none"]
    /\ net = [e \in Agents \X Agents |-> <<>>]
    /\ reports = [a \in Agents |-> <<>>]
    /\ det = DetReset(Agents)
    /\ obs = [candidates |-> <<>>, solution |-> NoSolution, determined |-> FALSE,
              terminated |-> FALSE, notified |-> FALSE]
    /\ ctrl = [pc |-> "idle", i |-> 1, neg_done |-> "none", final |-> NoSolution, run |-> 1]
    /\ units = [a \in Agents |-> <<>>]
    /\ stopcall = [a \in Agents |-> "none"]
    /\ errors = {}
    /\ fn = FnOff

\* As CtrlNextRun, but the buffer of final candidates is kept.
CtrlNextRunKeepBuffer ==
    /\ ctrl.pc = "done"
    /\ ctrl.run < MaxRuns
    /\ ctrl' = [ctrl EXCEPT !.pc = "store", !.i = 1, !.neg_done = "pending", !.run = @ + 1]
    /\ det' = DetReset(Agents)
    /\ obs' = [obs EXCEPT !.solution = NoSolution, !.determined = FALSE, !.notified = FALSE]
    /\ UNCHANGED <<cfg, wm, inbox, stopflag, task, net, reports, units, stopcall, errors, fn>>

\* run_negotiation has returned and the runner calls it for the next
\* date and target: as CtrlStartObservation, up to start_observation.
CtrlNextRun ==
    /\ ctrl.pc = "done"
    /\ ctrl.run < MaxRuns
    /\ ctrl' = [ctrl EXCEPT !.pc = "store", !.i = 1, !.neg_done = "pending", !.run = @ + 1]
    /\ det' = DetReset(Agents)
    /\ obs' = [obs EXCEPT !.candidates = <<>>, !.solution = NoSolution,
                          !.determined = FALSE, !.notified = FALSE]
    /\ UNCHANGED <<cfg, wm, inbox, stopflag, task, net, reports, units, stopcall, errors, fn>>

NextSession ==
    \/ CtrlStartObservation
    \/ CtrlStoreTopology
    \/ CtrlInitNegotiation
    \/ \E a \in Agents : ObsUpdateStats(a)
    \/ \E a \in Agents, b \in Agents : Deliver(a, b)
    \/ \E a \in Agents : TickEmpty(a)
    \/ \E a \in Agents : Tick(a)
    \/ ObsNotifyFinished
    \/ CtrlWaitDone
    \/ CtrlTimeout
    \/ \E a \in Agents : AgentStopStart(a)
    \/ \E a \in Agents : AgentStopFinish(a)
    \/ CtrlPassSolution
    \/ CtrlBroadcast
    \/ CtrlNextRun

SpecSession == InitSession /\ [][NextSession]_vars

\* Planner.stop_negotiation called on agent a once more after
\* run_negotiation has returned: the stop flag is set, the ended inbox task
\* is awaited, and self.wm.candidate is read.  With the working memory
\* cleared by the first call the read raises; otherwise the call runs as
\* the first one did.
AgentStopAgain(a) ==
    /\ ctrl.pc = "done"
    /\ stopcall[a] = "done"
    /\ task[a] = "done"
    /\ stopflag' = [stopflag EXCEPT ![a] = TRUE]
    /\ IF wm[a] = NoWM
       THEN /\ stopcall' = [stopcall EXCEPT ![a] = "raised"]
            /\ errors' = errors \cup {"AttributeError"}
            /\ UNCHANGED <<wm, inbox, obs>>
       ELSE /\ stopcall' = [stopcall EXCEPT ![a] = "again"]
            /\ inbox' = [inbox EXCEPT ![a] = <<>>]
            /\ wm' = [wm EXCEPT ![a] = NoWM]
            /\ LET cands == Append(obs.candidates, wm[a].candidate)
                   sol   == GetSolution(obs.terminated, cands, Ts, Weights)
               IN  IF Len(cands) = Cardinality(Agents)
                   THEN /\ obs' = [obs EXCEPT !.candidates = cands,
                                              !.solution = sol.solution,
                                              !.determined = sol.ok]
                        /\ errors' = IF sol.ok THEN errors ELSE errors \cup {"AssertionError"}
                   ELSE /\ obs' = [obs EXCEPT !.candidates = cands]
                        /\ errors' = errors
    /\ UNCHANGED <<cfg, task, net, reports, det, ctrl, units, fn>>

NextStopTwice ==
    \/ CtrlStartObservation
    \/ CtrlStoreTopology
    \/ CtrlInitNegotiation
    \/ \E a \in Agents : ObsUpdateStats(a)
    \/ \E a \in Agents, b \in Agents : Deliver(a, b)
    \/ \E a \in Agents : TickEmpty(a)
    \/ \E a \in Agents : Tick(a)
    \/ ObsNotifyFinished
    \/ CtrlWaitDone
    \/ CtrlTimeout
    \/ \E a \in Agents : AgentStopStart(a)
    \/ \E a \in Agents : AgentStopFinish(a)
    \/ CtrlPassSolution
    \/ CtrlBroadcast
    \/ \E a \in Agents : AgentStopAgain(a)

\* One negotiation, and stop_negotiation called again on its planners.
SpecStopTwice == Init /\ [][NextStopTwice]_vars

\* The negotiation with a neg_timeout that does not expire: every step
\* but the timeout, none of them held back forever.
NextLive ==
    \/ CtrlStartObservation
    \/ CtrlStoreTopology
    \/ CtrlInitNegotiation
    \/ \E a \in Agents : ObsUpdateStats(a)
    \/ \E a \in Agents, b \in Agents : Deliver(a, b)
    \/ \E a \in Agents : TickEmpty(a)
    \/ \E a \in Agents : Tick(a)
    \/ ObsNotifyFinished
    \/ CtrlWaitDone
    \/ \E a \in Agents : AgentStopStart(a)
    \/ \E a \in Agents : AgentStopFinish(a)
    \/ CtrlPassSolution
    \/ CtrlBroadcast

SpecLive == Init /\ [][NextLive]_vars /\ WF_vars(NextLive)

\* The negotiation with a finite neg_timeout: no step, the expiry of the
\* timeout included, is held back forever.
SpecFair == Init /\ [][Next]_vars /\ WF_vars(Next)

-----------------------------------------------------------------------------
(* Properties of the negotiation *)

\* C1: a negotiation started by init_negotiation and not cut off by the
\* timeout reaches, and then stays in, a state with no message in flight,
\* every inbox empty and no report under way: no later tick changes an
\* agent's (SC, candidate) or sends a message.
C1_Convergence ==
    <>[](ctrl.pc \notin {"idle", "store", "init", "init_wait"} /\ Settled)

C1_Witness ==
    /\ ctrl.pc = "wait" /\ Settled
    /\ cfg.scn.n = 3
    /\ \A a \in Agents : wm[a].msgs_in >= 2 /\ Keys(wm[a].candidate) = Agents

C3_DetectorFiresOnConvergence ==
    (ctrl.pc = "wait" /\ Settled) => det.terminated

C3_Witness ==
    /\ ctrl.pc = "wait" /\ Settled /\ ~det.terminated
    /\ cfg.scn.n = 2
    /\ \A a \in Agents : wm[a].msgs_in >= 1 /\ Keys(wm[a].candidate) = Agents

\* C4: the solution the controller obtains has a row for every registered
\* agent, and set_schedule is called exactly once on every agent, with the
\* agent's own sid of the solution, also after a timeout before convergence.
C4_BroadcastWellFormed ==
    /\ ctrl.pc # "failed"
    /\ ctrl.pc \in {"broadcast", "done"} =>
          /\ Keys(ctrl.final) = Agents
          /\ DOMAIN ctrl.final.cs = 0 .. Cardinality(Agents) - 1
          /\ DOMAIN ctrl.final.sids = 0 .. Cardinality(Agents) - 1
    /\ ctrl.pc = "done" =>
          \A a \in Agents :
              /\ units[a] = <<CandData(ctrl.final, a).sid>>
              /\ \E p \in DOMAIN cfg.scn.ps[a] :
                    /\ cfg.scn.ps[a][p].sid = CandData(ctrl.final, a).sid
                    /\ cfg.scn.ps[a][p].os = CandData(ctrl.final, a).os
    /\ ctrl.pc # "done" => \A a \in Agents : units[a] = <<>>

C4_Witness ==
    /\ ctrl.pc = "done" /\ ctrl.neg_done = "cancelled"
    /\ cfg.scn.n = 3
    /\ \E i \in DOMAIN obs.candidates, j \in DOMAIN obs.candidates :
          /\ Keys(obs.candidates[i]) \ Keys(obs.candidates[j]) # {}
          /\ Keys(obs.candidates[j]) \ Keys(obs.candidates[i]) # {}
    /\ \A a \in Agents : Len(units[a]) = 1

\* C17: the steps of one run_negotiation come in order.  A planner has a
\* working memory or an inbox task only after start_observation; once
\* init_negotiation has been called on any agent (the controller is past
\* the store loop, or a message or report exists) every agent has had its
\* store_topology, so a planner with a message in its inbox has had it
\* too; stop_negotiation is issued only after the done future was resolved
\* or cancelled by the timeout; the solution is retrieved only after
\* stop_negotiation completed on every agent; set_schedule is called only
\* after the solution was retrieved, as the last step.
C17_LifecycleOrder ==
    /\ ctrl.pc = "idle" =>
          /\ ctrl.neg_done = "none"
          /\ \A a \in Agents : wm[a] = NoWM /\ task[a] = "none"
    /\ (\/ ctrl.pc \notin {"idle", "store"}
        \/ \E e \in DOMAIN net : net[e] # <<>>
        \/ \E a \in Agents : inbox[a] # <<>> \/ reports[a] # <<>>)
          => \A a \in Agents : task[a] # "none"
    /\ (\E a \in Agents : stopcall[a] # "none" \/ stopflag[a])
          => /\ ctrl.neg_done \in {"done", "cancelled"}
             /\ ctrl.pc \in {"stop", "broadcast", "done"}
    /\ (ctrl.final # NoSolution \/ ctrl.pc \in {"broadcast", "done"})
          => /\ \A a \in Agents : stopcall[a] = "done" /\ wm[a] = NoWM
             /\ obs.determined /\ ctrl.final = obs.solution
    /\ (\E a \in Agents : units[a] # <<>>)
          => /\ ctrl.pc = "done" /\ ctrl.final # NoSolution
             /\ \A a \in Agents : Len(units[a]) = 1

C17_Witness ==
    /\ ctrl.pc = "done"
    /\ cfg.scn.n = 2 /\ ~cfg.single /\ cfg.order = <<2, 1>>
    /\ \A a \in Agents : units[a] # <<>> /\ stopcall[a] = "done"

\* C18: when neg_timeout expires before the done future is resolved,
\* run_negotiation neither fails nor hangs: no stop call and no step of the
\* controller raises, and the run goes on to the state where every agent
\* is stopped, the controller holds the observer's solution, set_schedule
\* has been called on every agent and run_negotiation has returned.
C18_TimeoutProceeds ==
    /\ [](ctrl.neg_done = "cancelled" =>
            /\ ctrl.pc # "failed"
            /\ \A a \in Agents : stopcall[a] # "failed" /\ task[a] # "failed")
    /\ (ctrl.neg_done = "cancelled") ~>
            (/\ ctrl.pc = "done"
             /\ \A a \in Agents : stopcall[a] = "done" /\ Len(units[a]) = 1
             /\ ctrl.final # NoSolution /\ ctrl.final = obs.solution)

C18_Witness ==
    /\ ctrl.pc = "done" /\ ctrl.neg_done = "cancelled"
    /\ cfg.scn.n = 2
    /\ \E i \in DOMAIN obs.candidates : Keys(obs.candidates[i]) # Agents
    /\ \E e \in DOMAIN net : net[e] # <<>>

\* C19: in every negotiation of a session the observer's solution is
\* determined by the step that brings the number of buffered final
\* candidates to the number of agents, and by no other; from then on to the
\* end of the negotiation the solution and the buffer stay as they are;
\* the controller obtains a solution only when it is determined, and
\* obtains exactly it.
C19_SolutionDeterminedOnce ==
    [][/\ Len(obs.candidates) <= Cardinality(Agents)
       /\ obs.determined <=> Len(obs.candidates) = Cardinality(Agents)
       /\ ~obs.determined => obs.solution = NoSolution
       /\ (~obs.determined /\ obs'.determined) =>
             /\ Len(obs.candidates) = Cardinality(Agents) - 1
             /\ Len(obs'.candidates) = Cardinality(Agents)
             /\ obs'.solution # NoSolution
       /\ (obs.determined /\ ctrl'.run = ctrl.run) =>
             /\ obs'.determined
             /\ obs'.solution = obs.solution
             /\ obs'.candidates = obs.candidates
       /\ ctrl'.final # ctrl.final =>
             /\ obs.determined
             /\ ctrl'.final = obs.solution]_vars

C19_Witness ==
    /\ ctrl.run = 2 /\ ctrl.pc = "broadcast"
    /\ cfg.scn.n = 2
    /\ obs.determined /\ ctrl.final = obs.solution
    /\ Len(units[1]) = 1

\* C20: a second stop_negotiation on a planner, after the first has
\* completed and with no store_topology in between, completes normally,
\* leaves the planner idle (no working memory, the inbox task ended) and
\* delivers no further final candidate to the observer.
C20_StopIdempotent ==
    \A a \in Agents :
        stopcall[a] \in {"again", "raised"} =>
            /\ stopcall[a] = "again"
            /\ wm[a] = NoWM /\ task[a] = "done"
            /\ Len(obs.candidates) = Cardinality(Agents)

C20_Witness ==
    \E a \in Agents :
        /\ stopcall[a] = "raised" /\ "AttributeError" \in errors
        /\ wm[a] = NoWM /\ task[a] = "done"
        /\ Len(obs.candidates) = Cardinality(Agents)

\* C25: with the single isolated agent of Scenario1 the solution that is
\* broadcast selects sid 1 with perf 0.
C25_SingleAgentBest ==
    (cfg.scn = Scenario1 /\ ctrl.pc \in {"broadcast", "done"}) =>
        /\ ctrl.final.perf = 0
        /\ CandData(ctrl.final, 1).sid = 1
        /\ ctrl.pc = "done" => units[1] = <<1>>

C25_Witness ==
    /\ cfg.scn = Scenario1 /\ ctrl.pc = "done"
    /\ Neighbors(cfg.scn.n, 1) = {}
    /\ wm[1] = NoWM /\ stopcall[1] = "done"
    /\ ctrl.final.perf = -4
    /\ units[1] = <<0>>

\* c selects sid[a] for every agent a of the scenario, with perf p.
Selects(c, sid, p) ==
    /\ Keys(c) = Agents
    /\ \A a \in Agents : CandData(c, a).sid = sid[a]
    /\ c.perf = p

\* C26: in Scenario2, whichever agent is the seed, a negotiation that has
\* run to quiescence (nothing in flight, every inbox empty) has every
\* agent's candidate at A -> sid 1, B -> sid 1 with perf 0, and a
\* negotiation stopped after quiescence yields that solution and
\* broadcasts sid 1 to both.
C26_TwoAgentsOutcome ==
    cfg.scn = Scenario2 =>
        /\ (ctrl.pc = "wait" /\ Settled) =>
              \A a \in Agents : Selects(wm[a].candidate, <<1, 1>>, 0)
        /\ (cfg.neg_timeout = "late" /\ ctrl.pc \in {"broadcast", "done"}) =>
              Selects(ctrl.final, <<1, 1>>, 0)
        /\ (cfg.neg_timeout = "late" /\ ctrl.pc = "done") =>
              \A a \in Agents : units[a] = <<1>>

C26_Witness ==
    /\ cfg.scn = Scenario2 /\ cfg.neg_timeout = "late" /\ cfg.single
    /\ cfg.order = <<2, 1>>
    /\ ctrl.pc = "done"
    /\ Selects(ctrl.final, <<1, 1>>, 0)
    /\ units = <<<<1>>, <<1>>>>

\* c has a row for every agent, exactly two of them with sid 0 and one
\* with sid 1, and perf p.
TwoOfThree(c, p) ==
    /\ Keys(c) = Agents
    /\ Cardinality({a \in Agents : CandData(c, a).sid = 0}) = 2
    /\ Cardinality({a \in Agents : CandData(c, a).sid = 1}) = 1
    /\ c.perf = p

\* A negotiation of Scenario3 that has run to quiescence: every agent's
\* candidate while the controller waits, and the solution of a run stopped
\* after quiescence, satisfy Q.
Scenario3Outcome(Q(_)) ==
    cfg.scn = Scenario3 =>
        /\ (ctrl.pc = "wait" /\ Settled) => \A a \in Agents : Q(wm[a].candidate)
        /\ (cfg.neg_timeout = "late" /\ ctrl.pc \in {"broadcast", "done"}) => Q(ctrl.final)

\* C27: in Scenario3 every negotiation that runs to quiescence ends with
\* exactly two agents at sid 0 and one at sid 1, with perf -1.
C27_ThreeAgentsOutcome ==
    LET Q(c) == TwoOfThree(c, -1) IN Scenario3Outcome(Q)

\* C27 as the code has it: exactly two agents at sid 0 and one at sid 1,
\* with perf 0 (the two schedules [1] add up to the target 2).
C27_ThreeAgentsOutcomePerfZero ==
    LET Q(c) == TwoOfThree(c, 0) IN Scenario3Outcome(Q)

C27_Witness ==
    /\ cfg.scn = Scenario3 /\ cfg.neg_timeout = "late"
    /\ ctrl.pc = "done"
    /\ TwoOfThree(ctrl.final, 0)
    /\ Cardinality({a \in Agents : units[a] = <<0>>}) = 2

\* Agent a's inbox task takes one pass with a non-empty inbox.
TickStep(a) ==
    /\ task[a] = "sleep" /\ inbox[a] # <<>>
    /\ task'[a] = "report"

\* Merging the drained inbox into agent a's state changes its content.
MergeChanges(a) ==
    LET st == PerceiveAll([sysconf |-> wm[a].sysconf, candidate |-> wm[a].candidate,
                           sc_is |-> TRUE, cand_is |-> TRUE, ok |-> TRUE],
                          inbox[a], a, Ts, Weights)
    IN  ~SCEq(st.sysconf, wm[a].sysconf) \/ ~CandEq(st.candidate, wm[a].candidate)

\* C28: a tick that drained at least one message sends the agent's new
\* (SC, candidate) once to every neighbor, and to no one else, if merging
\* the drained messages changed its SC or its candidate, and sends nothing
\* and keeps its state otherwise; msgs_out grows by the number of
\* neighbors or by 0; the observer gets one report with msg_sent equal to
\* the change flag.
C28_ActIffChanged ==
    [][\A a \in Agents :
         TickStep(a) =>
            LET N       == Neighbors(cfg.scn.n, a)
                changed == MergeChanges(a)
                msg     == [sysconf |-> wm'[a].sysconf, candidate |-> wm'[a].candidate]
            IN  /\ \A e \in DOMAIN net :
                      net'[e] = IF changed /\ e[1] = a /\ e[2] \in N
                                THEN Append(net[e], msg) ELSE net[e]
                /\ wm'[a].msgs_out = wm[a].msgs_out + (IF changed THEN Cardinality(N) ELSE 0)
                /\ ~changed => /\ wm'[a].sysconf = wm[a].sysconf
                               /\ wm'[a].candidate = wm[a].candidate
                /\ reports'[a] = Append(reports[a],
                                        [kind |-> "tick", msgs_in |-> wm'[a].msgs_in,
                                         msgs_out |-> wm'[a].msgs_out, msg_sent |-> changed])
                /\ \A b \in Agents \ {a} : reports'[b] = reports[b] /\ wm'[b] = wm[b]]_vars

C28_Witness ==
    /\ cfg.scn.n = 3
    /\ \E a \in Agents :
          /\ task[a] = "report" /\ reports[a] # <<>>
          /\ Head(reports[a]).kind = "tick" /\ ~Head(reports[a]).msg_sent
          /\ wm[a].msgs_out >= 2
    /\ \E b \in Agents :
          /\ task[b] = "report" /\ reports[b] # <<>>
          /\ Head(reports[b]).kind = "tick" /\ Head(reports[b]).msg_sent

\* Calls of update sent to b so far: one per _act or init_negotiation of
\* each agent that has b as a neighbor.
SentTo(b) ==
    SumOver([a \in Agents |->
                IF b \in Neighbors(cfg.scn.n, a)
                THEN wm[a].msgs_out \div Cardinality(Neighbors(cfg.scn.n, a))
                ELSE 0], Agents)

\* Calls of update on their way to b.
InFlightTo(b) == SumOver([a \in Agents |-> Len(net[<<a, b>>])], Agents)

\* C29: a tick processes exactly the messages in the inbox at the drain:
\* it counts each of them in msgs_in and leaves the inbox empty, and its
\* result is the merge of exactly these messages.  A message delivered
\* while the tick waits on the observer is appended to the inbox and
\* leaves the agent's state alone.  An inbox loses messages only by a tick
\* or by stop_negotiation.  While every planner has its working memory,
\* every message sent to an agent is in flight, in its inbox or counted in
\* its msgs_in, exactly once.
C29_InboxBatching ==
    [][/\ \A a \in Agents :
            /\ TickStep(a) =>
                  /\ inbox'[a] = <<>>
                  /\ wm'[a].msgs_in = wm[a].msgs_in + Len(inbox[a])
                  /\ LET st == PerceiveAll([sysconf |-> wm[a].sysconf,
                                            candidate |-> wm[a].candidate,
                                            sc_is |-> TRUE, cand_is |-> TRUE, ok |-> TRUE],
                                           inbox[a], a, Ts, Weights)
                         dec == Decide(a, st.sysconf, st.candidate, cfg.scn.ps[a], Ts, Weights)
                     IN  MergeChanges(a) => /\ wm'[a].sysconf = dec.sysconf
                                            /\ wm'[a].candidate = dec.candidate
            /\ (task[a] = "report" /\ Len(inbox'[a]) > Len(inbox[a])) =>
                  /\ \E m \in {Head(net[e]) : e \in {d \in DOMAIN net : net[d] # <<>>}} :
                        inbox'[a] = Append(inbox[a], m)
                  /\ wm'[a] = wm[a] /\ task'[a] = "report"
            /\ inbox'[a] # inbox[a] =>
                  \/ Len(inbox'[a]) = Len(inbox[a]) + 1 /\ SubSeq(inbox'[a], 1, Len(inbox[a])) = inbox[a]
                  \/ TickStep(a)
                  \/ stopcall[a] = "recv" /\ stopcall'[a] = "done"
       /\ (\A a \in Agents : wm[a] # NoWM) =>
             \A b \in Agents : wm[b].msgs_in + Len(inbox[b]) + InFlightTo(b) = SentTo(b)]_vars

C29_Witness ==
    /\ cfg.scn.n = 3
    /\ \E b \in Agents :
          /\ task[b] = "report" /\ reports[b] # <<>> /\ Head(reports[b]).kind = "tick"
          /\ inbox[b] # <<>>
          /\ wm[b].msgs_in >= 2
          /\ ~stopflag[b]

\* C31: in a tick that calls _decide, the SC written back is the merged
\* SC with the agent's own counter raised by exactly one, and its own row
\* set to the one of the candidate written back, if that candidate's sid
\* for the agent differs from the agent's sid in the merged SC, and is the
\* merged SC itself otherwise; and in every working memory the agent's own
\* sid in the SC equals its own sid in the candidate.
C31_OwnCounter ==
    [][/\ \A a \in Agents :
            (TickStep(a) /\ MergeChanges(a)) =>
                LET st  == PerceiveAll([sysconf |-> wm[a].sysconf, candidate |-> wm[a].candidate,
                                        sc_is |-> TRUE, cand_is |-> TRUE, ok |-> TRUE],
                                       inbox[a], a, Ts, Weights)
                    in  == SCData(st.sysconf, a)
                    out == SCData(wm'[a].sysconf, a)
                    own == CandData(wm'[a].candidate, a)
                IN  /\ Keys(wm'[a].sysconf) = Keys(st.sysconf)
                    /\ \A b \in Keys(st.sysconf) \ {a} :
                          SCData(wm'[a].sysconf, b) = SCData(st.sysconf, b)
                    /\ IF own.sid # in.sid
                       THEN out = [os |-> own.os, sid |-> own.sid, count |-> in.count + 1]
                       ELSE out = in
       /\ \A a \in Agents :
            wm[a] # NoWM => SCData(wm[a].sysconf, a).sid = CandData(wm[a].candidate, a).sid]_vars

C31_Witness ==
    \E a \in Agents :
        /\ wm[a] # NoWM
        /\ SCData(wm[a].sysconf, a).count >= 2
        /\ SCData(wm[a].sysconf, a).sid = 0
        /\ wm[a].candidate.agent # a
        /\ CandData(wm[a].candidate, a).sid = 0

\* The agents on which the controller has called init_negotiation.
Inited ==
    {cfg.order[k] : k \in 1 .. (IF ctrl.pc \in {"idle", "store"} THEN 0
                                ELSE IF ctrl.pc = "init" THEN ctrl.i - 1
                                ELSE ctrl.i)}

\* C32: once the controller's init loop is over, init_negotiation has been
\* called on exactly one agent with negotiation_single_start and on every
\* agent without it; an agent on which it was not called has sent messages
\* only if it has processed a received one, and its msgs_out grows only in
\* a tick that drained its inbox.
C32_SingleStart ==
    [][/\ ctrl.pc \in {"wait", "stop", "broadcast", "done"} =>
             Cardinality(Inited) = IF cfg.single THEN 1 ELSE Cardinality(Agents)
       /\ \A a \in Agents \ Inited :
             /\ (wm[a] # NoWM /\ wm[a].msgs_out > 0) => wm[a].msgs_in >= 1
             /\ \A e \in DOMAIN net :
                   (wm[a] # NoWM /\ e[1] = a /\ net[e] # <<>>) => wm[a].msgs_in >= 1
       /\ \A a \in Agents :
             (wm[a] # NoWM /\ wm'[a] # NoWM /\ wm'[a].msgs_out > wm[a].msgs_out) =>
                 \/ TickStep(a) /\ Len(inbox[a]) >= 1
                 \/ ctrl.pc = "init" /\ a = cfg.order[ctrl.i] /\ a \in Inited']_vars

C32_Witness ==
    /\ cfg.single /\ cfg.scn.n = 3 /\ cfg.order[1] = 2
    /\ ctrl.pc = "wait" /\ Inited = {2}
    /\ \E a \in Agents \ {2} : wm[a].msgs_out >= 2 /\ wm[a].msgs_in >= 1
    /\ \E a \in Agents \ {2} : wm[a].msgs_out = 0 /\ wm[a].msgs_in = 0

C34_CleanObservation ==
    [][/\ (ctrl.pc \in {"idle", "done"} /\ ctrl'.pc = "store") =>
             /\ det' = DetReset(Agents)
             /\ obs'.candidates = <<>> /\ obs'.solution = NoSolution /\ ~obs'.determined
             /\ \A a \in Agents : wm[a] = NoWM /\ wm'[a] = NoWM /\ reports[a] = <<>>
       /\ ctrl.pc \in {"store", "init", "init_wait", "wait"} =>
             /\ obs.candidates = <<>> /\ obs.solution = NoSolution /\ ~obs.determined
             /\ \A a \in Agents :
                   /\ wm[a] = NoWM => det.msgs_in[a] = 0 /\ det.msgs_out[a] = 0
                   /\ wm[a] # NoWM => /\ det.msgs_in[a] <= wm[a].msgs_in
                                      /\ det.msgs_out[a] <= wm[a].msgs_out
       /\ obs.determined =>
             obs.solution = GetSolution(obs.terminated, obs.candidates, Ts, Weights).solution]_vars

C34_Witness ==
    /\ ctrl.run = 2 /\ ctrl.pc = "wait"
    /\ cfg.scn.n = 2
    /\ ctrl.final # NoSolution /\ obs.solution = NoSolution /\ obs.candidates = <<>>
    /\ det.sum_in >= 1
    /\ \A a \in Agents : Len(units[a]) = 1

\* Some message sent by init_negotiation or _act is in flight or waits in
\* an inbox.
Unprocessed ==
    \E a \in Agents : inbox[a] # <<>> \/ \E b \in Agents : net[<<b, a>>] # <<>>

\* C35: the detector has not raised terminated while a message sent by
\* init_negotiation or _act is still in flight or waiting in an inbox,
\* whatever the order in which the agents' reports reach the observer.
C35_NoFalseTermination ==
    det.terminated => ~Unprocessed

C35_Witness ==
    /\ Unprocessed /\ ~det.terminated
    /\ det.sum_in = det.sum_out /\ det.sum_in > 0
    /\ \E a \in Agents : reports[a] # <<>> /\ Head(reports[a]).kind = "init"
    /\ ctrl.pc = "init_wait"

\* Calls of update sent to b in the running negotiation by the planners
\* that are armed for it.
SentNow(b) ==
    SumOver([a \in Agents |->
                IF wm[a] # NoWM /\ b \in Neighbors(cfg.scn.n, a)
                THEN wm[a].msgs_out \div Cardinality(Neighbors(cfg.scn.n, a))
                ELSE 0], Agents)

\* C36: up to the stop of a negotiation, the messages a planner armed for
\* it has processed or holds in its inbox are messages sent in this
\* negotiation: there are no more of them than the armed planners have
\* sent to it.
C36_NoStaleMessages ==
    ctrl.pc \in {"store", "init", "init_wait", "wait"} =>
        \A b \in Agents :
            wm[b] # NoWM => wm[b].msgs_in + Len(inbox[b]) <= SentNow(b)

C36_Witness ==
    /\ ctrl.run = 2 /\ ctrl.pc = "store"
    /\ \E b \in Agents :
          /\ wm[b] # NoWM /\ wm[b].msgs_in = 1 /\ SentNow(b) = 0
          /\ Keys(wm[b].candidate) = Agents
          /\ \E a \in Agents : wm[a] = NoWM

\* C37: the observer invokes negotiation_finished only while the done
\* future of the negotiation is pending: not after the timed wait has
\* cancelled it and not after it has been resolved.
C37_FinishedWhilePending ==
    [][(~obs.notified /\ obs'.notified) => ctrl.neg_done = "pending"]_vars

C37_Witness ==
    /\ obs.notified /\ det.terminated
    /\ ctrl.neg_done = "cancelled"
    /\ "InvalidStateError" \in errors

\* The SCs of the running negotiation: those held in a working memory and
\* those carried by a message in flight or in an inbox.
Range(q) == {q[i] : i \in 1 .. Len(q)}

AllSC ==
    {wm[a].sysconf : a \in {b \in Agents : wm[b] # NoWM}}
        \cup {m.sysconf : m \in UNION {Range(inbox[a]) : a \in Agents}}
        \cup {m.sysconf : m \in UNION {Range(net[l]) : l \in Agents \X Agents}}

\* C38: no SC holds a counter for agent a above the one a holds for itself;
\* two SC entries for a with equal counters are the same entry; and merging
\* the inbox leaves an agent's own row in its own SC as it is.
C38_CounterOwnership ==
    /\ \A a \in Agents : \A sc \in AllSC :
          (wm[a] # NoWM /\ a \in Keys(sc)) =>
              SCData(sc, a).count <= SCData(wm[a].sysconf, a).count
    /\ \A a \in Agents : \A s1 \in AllSC, s2 \in AllSC :
          (a \in Keys(s1) /\ a \in Keys(s2) /\ SCData(s1, a).count = SCData(s2, a).count) =>
              SCData(s1, a) = SCData(s2, a)
    /\ \A a \in Agents :
          wm[a] # NoWM =>
              SCData(PerceiveAll([sysconf |-> wm[a].sysconf, candidate |-> wm[a].candidate,
                                  sc_is |-> TRUE, cand_is |-> TRUE, ok |-> TRUE],
                                 inbox[a], a, Ts, Weights).sysconf, a)
                  = SCData(wm[a].sysconf, a)

C38_Witness ==
    \E a \in Agents :
        /\ ctrl.run = 2
        /\ wm[a] # NoWM /\ SCData(wm[a].sysconf, a).count = 0
        /\ \E sc \in AllSC : a \in Keys(sc) /\ SCData(sc, a).count = 1
        /\ \E b \in Agents \ {a} :
              /\ wm[b] # NoWM /\ a \in Keys(wm[b].sysconf)
              /\ SCData(wm[b].sysconf, a).count = 1

\* C39: in every working memory the SC and the candidate cover the same
\* agents, the planner itself among them, and no step of a negotiation
\* removes an agent from that key set.
C39_KeySets ==
    [][\A a \in Agents :
         /\ wm[a] # NoWM =>
               /\ Keys(wm[a].sysconf) = Keys(wm[a].candidate)
               /\ a \in Keys(wm[a].sysconf)
         /\ (wm[a] # NoWM /\ wm'[a] # NoWM) =>
               /\ Keys(wm[a].sysconf) \subseteq Keys(wm'[a].sysconf)
               /\ Keys(wm'[a].sysconf) = Keys(wm'[a].candidate)
               /\ a \in Keys(wm'[a].sysconf)]_vars

C39_Witness ==
    /\ cfg.scn.n = 3
    /\ \E a \in Agents, b \in Agents, c \in Agents :
          /\ wm[a] # NoWM /\ Keys(wm[a].sysconf) = {a}
          /\ wm[b] # NoWM /\ Cardinality(Keys(wm[b].sysconf)) = 2
          /\ wm[c] # NoWM /\ Keys(wm[c].candidate) = Agents

\* C40: when a running negotiation is quiescent, all agents hold the same
\* SC and the same candidate, both covering every agent, and the candidate's
\* sid for each agent is the sid of that agent's own SC row; when the
\* negotiation is stopped in such a state, every candidate handed to the
\* observer keeps that sid for every agent still to be stopped, and the sid
\* broadcast to an agent is the one those candidates hold for it.
C40_QuiescentAgreement ==
    /\ (ctrl.pc = "wait" /\ Settled) =>
          \A a \in Agents, b \in Agents :
              /\ Keys(wm[a].sysconf) = Agents /\ Keys(wm[a].candidate) = Agents
              /\ SCEq(wm[a].sysconf, wm[b].sysconf)
              /\ CandEq(wm[a].candidate, wm[b].candidate)
              /\ CandData(wm[b].candidate, a).sid = SCData(wm[a].sysconf, a).sid
    /\ (cfg.neg_timeout = "late" /\ ctrl.pc = "stop") =>
          \A a \in Agents : \A i \in DOMAIN obs.candidates :
              wm[a] # NoWM =>
                  CandData(obs.candidates[i], a).sid = SCData(wm[a].sysconf, a).sid
    /\ (cfg.neg_timeout = "late" /\ ctrl.pc = "done") =>
          \A a \in Agents : \A i \in DOMAIN obs.candidates :
              units[a] = <<CandData(obs.candidates[i], a).sid>>

C40_Witness ==
    /\ cfg.neg_timeout = "late" /\ ctrl.pc = "done" /\ cfg.scn.n = 3
    /\ Len(obs.candidates) = 3
    /\ \E a \in Agents : units[a] # <<0>>

\* perf is the objective of the candidate's own matrix for the target and
\* weights of the running negotiation.
PerfCurrent(c) == c.perf \in Int /\ c.perf = Objective(c.cs, Ts, Weights)

\* C13: every candidate held in a working memory, carried in a message,
\* buffered by the observer or returned as the solution has
\* perf = -sum_t w[t] * |ts[t] - sum_i cs[i,t]| for the target and weights
\* of the live negotiation.
C13_PerfOfLiveNegotiation ==
    /\ \A a \in Agents : wm[a] # NoWM => PerfCurrent(wm[a].candidate)
    /\ \A e \in DOMAIN net : \A i \in DOMAIN net[e] : PerfCurrent(net[e][i].candidate)
    /\ \A a \in Agents : \A i \in DOMAIN inbox[a] : PerfCurrent(inbox[a][i].candidate)
    /\ \A i \in DOMAIN obs.candidates : PerfCurrent(obs.candidates[i])
    /\ obs.determined => PerfCurrent(obs.solution)

\* A planner of the second negotiation holds, after a tick, a candidate
\* whose perf is not the objective of its matrix for the second target.
C13_Witness ==
    /\ ctrl.run = 2
    /\ \E a \in Agents :
          /\ wm[a] # NoWM
          /\ wm[a].msgs_in >= 1
          /\ ~PerfCurrent(wm[a].candidate)

\* idx maps the k names onto 0 .. k-1 in the order of the names, and there
\* are exactly k rows and k sids.
ShapeOK(x) ==
    LET K == DOMAIN x.idx
        k == Cardinality(K)
    IN  /\ K # {}
        /\ \A a \in K : x.idx[a] = Cardinality({b \in K : b < a})
        /\ \A a \in K, b \in K : x.idx[a] = x.idx[b] => a = b
        /\ {x.idx[a] : a \in K} = 0 .. k - 1
        /\ DOMAIN x.cs = 0 .. k - 1
        /\ DOMAIN x.sids = 0 .. k - 1

\* A well-shaped SC also has exactly k counters, none negative.
SCShapeOK(sc) ==
    /\ ShapeOK(sc)
    /\ DOMAIN sc.cnt = DOMAIN sc.cs
    /\ \A i \in DOMAIN sc.cnt : sc.cnt[i] >= 0

\* C14: every SC and every candidate of a negotiation (in a working
\* memory, in a message in flight or in an inbox, buffered by the observer,
\* or the solution) is well-shaped: idx is a bijection from the names onto
\* 0 .. k-1 in the order of the names, with k rows and k sids, and for an
\* SC k counters >= 0; equal key sets are indexed identically.
C14_WellShaped ==
    /\ \A a \in Agents : wm[a] # NoWM =>
          SCShapeOK(wm[a].sysconf) /\ ShapeOK(wm[a].candidate)
    /\ \A e \in DOMAIN net : \A i \in DOMAIN net[e] :
          SCShapeOK(net[e][i].sysconf) /\ ShapeOK(net[e][i].candidate)
    /\ \A a \in Agents : \A i \in DOMAIN inbox[a] :
          SCShapeOK(inbox[a][i].sysconf) /\ ShapeOK(inbox[a][i].candidate)
    /\ \A i \in DOMAIN obs.candidates : ShapeOK(obs.candidates[i])
    /\ obs.determined => ShapeOK(obs.solution)
    /\ \A a \in Agents, b \in Agents :
          (wm[a] # NoWM /\ wm[b] # NoWM /\ Keys(wm[a].sysconf) = Keys(wm[b].sysconf))
              => wm[a].sysconf.idx = wm[b].sysconf.idx

C14_Witness ==
    /\ cfg.scn.n = 3
    /\ wm[3] # NoWM /\ Keys(wm[3].sysconf) = {1, 2, 3}
    /\ \E i \in DOMAIN wm[3].sysconf.cnt : wm[3].sysconf.cnt[i] >= 1
    /\ \E b \in Agents : wm[b] # NoWM /\ Cardinality(Keys(wm[b].candidate)) = 2
    /\ \E e \in DOMAIN net : net[e] # <<>>

\* C15: across every step in which an agent's working-memory candidate
\* keeps its key set, the candidate's perf does not decrease; in particular
\* once the candidate covers all agents its perf never decreases until the
\* working memory is dropped at the stop.
C15_MonotoneImprovement ==
    [][\A a \in Agents :
          (/\ wm[a] # NoWM
           /\ wm'[a] # NoWM
           /\ Keys(wm'[a].candidate) = Keys(wm[a].candidate))
          => wm'[a].candidate.perf >= wm[a].candidate.perf]_vars

\* Agent 1 of Scenario4 holds the candidate of perf 0 over both agents
\* after ticks in which agent 2's worse candidate over the same keys
\* arrived: its SC already has agent 2's newer schedule, its candidate not.
C15_Witness ==
    /\ cfg.scn = Scenario4
    /\ wm[1] # NoWM
    /\ Keys(wm[1].candidate) = Agents
    /\ wm[1].candidate.perf = 0
    /\ wm[1].msgs_in >= 2
    /\ SCData(wm[1].sysconf, 2).sid # CandData(wm[1].candidate, 2).sid

\* C16: the solution the observer determines is, when the detector fired
\* and the done future was resolved, equal to every buffered candidate, and
\* when the negotiation ended by timeout, the left-to-right fold of
\* Candidate.merge over the buffered candidates in arrival order, merged as
\* 'controller' with perf for the session target and weights.
FoldLeft(cands, n) ==
    LET m(x, y) == CandMerge(x, y, Controller, Ts, Weights).c
        f[i \in 1 .. n] == IF i = 1 THEN cands[1] ELSE m(f[i - 1], cands[i])
    IN  f[n]

C16_SolutionTwoPaths ==
    obs.determined =>
        /\ Len(obs.candidates) = Cardinality(Agents)
        /\ (det.terminated /\ ctrl.neg_done = "done") =>
              \A i \in DOMAIN obs.candidates : CandEq(obs.solution, obs.candidates[i])
        /\ ctrl.neg_done = "cancelled" =>
              obs.solution = FoldLeft(obs.candidates, Len(obs.candidates))

\* After a timeout with three agents the solution is a candidate merged by
\* the controller that none of the agents delivered.
C16_Witness ==
    /\ obs.determined
    /\ ctrl.pc = "stop" /\ ctrl.neg_done = "cancelled"
    /\ cfg.scn.n = 3
    /\ obs.solution.agent = Controller
    /\ \A i \in DOMAIN obs.candidates : obs.solution.cs # obs.candidates[i].cs

-----------------------------------------------------------------------------
(* The merges applied on their own to inputs drawn from bounded sets *)

NonEmptySubsets(S) == SUBSET S \ {{}}

\* A SystemConfig over K as the constructor and merge build it: dense
\* sorted index map, rows taken from the owners' catalogues, counters >= 0.
MkSC(scn, K, f) ==
    LET k == Cardinality(K)
    IN  [idx  |-> [a \in K |-> Rank(K, a)],
         cs   |-> [i \in 0 .. k - 1 |-> scn.ps[AgentAt(K, i)][f[AgentAt(K, i)][1]].os],
         sids |-> [i \in 0 .. k - 1 |-> scn.ps[AgentAt(K, i)][f[AgentAt(K, i)][1]].sid],
         cnt  |-> [i \in 0 .. k - 1 |-> f[AgentAt(K, i)][2]]]

SCInputs(scn) ==
    UNION {{MkSC(scn, K, f) : f \in [K -> (1 .. 2) \X (0 .. MaxCnt)]}
           : K \in NonEmptySubsets(AgentsOf(scn))}

\* A Candidate over K with the perf its cluster schedule has.
MkCand(scn, author, K, g) ==
    LET k  == Cardinality(K)
        cs == [i \in 0 .. k - 1 |-> scn.ps[AgentAt(K, i)][g[AgentAt(K, i)]].os]
    IN  [agent |-> author,
         idx   |-> [a \in K |-> Rank(K, a)],
         cs    |-> cs,
         sids  |-> [i \in 0 .. k - 1 |-> scn.ps[AgentAt(K, i)][g[AgentAt(K, i)]].sid],
         perf  |-> Objective(cs, scn.ts, scn.weights)]

CandInputs(scn) ==
    UNION {{MkCand(scn, author, K, g) : g \in [K -> 1 .. 2], author \in AgentsOf(scn) \cup {Controller}}
           : K \in NonEmptySubsets(AgentsOf(scn))}

POff ==
    /\ cfg = <<>> /\ wm = <<>> /\ inbox = <<>> /\ stopflag = <<>> /\ task = <<>>
    /\ net = <<>> /\ reports = <<>> /\ det = <<>> /\ obs = <<>> /\ ctrl = <<>>
    /\ units = <<>> /\ stopcall = <<>> /\ errors = {}

InitMerge ==
    /\ POff
    /\ \E scn \in {Scenario2, Scenario3, Scenario5} :
         \/ /\ scn \in {Scenario3, Scenario5}
            /\ \E x \in SCInputs(scn), c \in CandInputs(scn) : \E name \in Keys(x) \cap Keys(c) :
                 fn = [phase |-> "in", kind |-> "decide", scn |-> scn, x |-> x, c |-> c,
                       name |-> name]
         \/ scn # Scenario5 /\ \E x \in SCInputs(scn), y \in SCInputs(scn) :
              fn = [phase |-> "in", kind |-> "sc", scn |-> scn, x |-> x, y |-> y]
         \/ scn # Scenario5 /\ \E x \in CandInputs(scn), y \in CandInputs(scn) :
              fn = [phase |-> "in", kind |-> "cand", scn |-> scn, x |-> x, y |-> y]
         \/ scn # Scenario5 /\ \E x \in SCInputs(scn) : \E a \in Keys(x), p \in 1 .. 2 :
              fn = [phase |-> "in", kind |-> "update", scn |-> scn, x |-> x,
                    agent |-> a, os |-> scn.ps[a][p].os, sid |-> scn.ps[a][p].sid]

ApplySCMerge ==
    /\ fn.phase = "in" /\ fn.kind = "sc"
    /\ LET r == SCMerge(fn.x, fn.y)
       IN  fn' = [phase |-> "out", kind |-> "sc", scn |-> fn.scn, x |-> fn.x, y |-> fn.y,
                  res |-> r.sc, is_i |-> r.is_i]
    /\ UNCHANGED pvars

ApplyCandMerge ==
    /\ fn.phase = "in" /\ fn.kind = "cand"
    /\ \E me \in AgentsOf(fn.scn) \cup {Controller} :
         LET r == CandMerge(fn.x, fn.y, me, fn.scn.ts, fn.scn.weights)
         IN  fn' = [phase |-> "out", kind |-> "cand", scn |-> fn.scn, x |-> fn.x, y |-> fn.y,
                    me |-> me, res |-> r.c, is_i |-> r.is_i]
    /\ UNCHANGED pvars

ApplySCUpdate ==
    /\ fn.phase = "in" /\ fn.kind = "update"
    /\ LET r == SCUpdateCall(fn.x, fn.agent, fn.os, fn.sid)
       IN  fn' = [phase |-> "out", kind |-> "update", scn |-> fn.scn, x |-> fn.x,
                  agent |-> fn.agent, os |-> fn.os, sid |-> fn.sid,
                  res |-> r.ret, self |-> r.self]
    /\ UNCHANGED pvars

ApplyDecide ==
    /\ fn.phase = "in" /\ fn.kind = "decide"
    /\ LET r == Decide(fn.name, fn.x, fn.c, fn.scn.ps[fn.name], fn.scn.ts, fn.scn.weights)
       IN  fn' = [phase |-> "out", kind |-> "decide", scn |-> fn.scn, x |-> fn.x, c |-> fn.c,
                  name |-> fn.name, sysconf |-> r.sysconf, candidate |-> r.candidate]
    /\ UNCHANGED pvars

NextMerge == ApplySCMerge \/ ApplyCandMerge \/ ApplySCUpdate \/ ApplyDecide

SpecMerge == InitMerge /\ [][NextMerge]_vars

SCMerged == fn.phase = "out" /\ fn.kind = "sc"
CandMerged == fn.phase = "out" /\ fn.kind = "cand"
SCUpdated == fn.phase = "out" /\ fn.kind = "update"
Decided == fn.phase = "out" /\ fn.kind = "decide"

-----------------------------------------------------------------------------
(* Properties of the merges *)

\* C5: SystemConfig.merge(x, y) returns the very instance x exactly when
\* the result equals x in value, which is exactly when y brings no new
\* agent and no strictly greater counter; merge(sc, sc) is sc; the in-code
\* assertion (result == x) == (result is x) holds.
C5_SCMergeIdentity ==
    SCMerged =>
        /\ fn.is_i <=> SCEq(fn.res, fn.x)
        /\ fn.is_i <=> /\ Keys(fn.y) \subseteq Keys(fn.x)
                       /\ \A a \in Keys(fn.y) : SCData(fn.y, a).count <= SCData(fn.x, a).count
        /\ SCEq(fn.x, fn.y) => fn.is_i

C5_Witness ==
    /\ SCMerged /\ fn.is_i /\ ~SCEq(fn.x, fn.y)
    /\ Keys(fn.y) # Keys(fn.x)
    /\ \E a \in Keys(fn.y) : SCData(fn.y, a).sid # SCData(fn.x, a).sid

\* C6: Candidate.merge(c_i, c_j, me, f) returns the very instance c_i
\* exactly when the result equals c_i in value; merge(c, c) is c; the
\* in-code assertion (result == c_i) == (result is c_i) holds.
C6_CandMergeIdentity ==
    CandMerged =>
        /\ fn.is_i <=> CandEq(fn.res, fn.x)
        /\ CandEq(fn.x, fn.y) => fn.is_i

C6_Witness ==
    /\ CandMerged /\ fn.is_i /\ ~CandEq(fn.x, fn.y)
    /\ Keys(fn.x) = Keys(fn.y) /\ fn.x.perf = fn.y.perf

\* C7: for every agent a of x or y the merged counter is at least the
\* counter of x and of y for a; the merged entry (row, sid, cnt) is y's
\* exactly when a is unknown to x or y's counter is strictly greater, and
\* x's otherwise (x wins on equal counters).
C7_SCMergeCounters ==
    SCMerged =>
        \A a \in Keys(fn.x) \cup Keys(fn.y) :
            /\ a \in Keys(fn.res)
            /\ a \in Keys(fn.x) => SCData(fn.res, a).count >= SCData(fn.x, a).count
            /\ a \in Keys(fn.y) => SCData(fn.res, a).count >= SCData(fn.y, a).count
            /\ IF a \notin Keys(fn.x)
                  \/ (a \in Keys(fn.y) /\ SCData(fn.y, a).count > SCData(fn.x, a).count)
               THEN SCData(fn.res, a) = SCData(fn.y, a)
               ELSE SCData(fn.res, a) = SCData(fn.x, a)

C7_Witness ==
    /\ SCMerged
    /\ \E a \in Keys(fn.x) \cap Keys(fn.y) :
         /\ SCData(fn.x, a).count = SCData(fn.y, a).count
         /\ SCData(fn.x, a).sid # SCData(fn.y, a).sid
    /\ \E a \in Keys(fn.x) \cap Keys(fn.y) : SCData(fn.y, a).count > SCData(fn.x, a).count
    /\ Keys(fn.y) \ Keys(fn.x) # {}

\* C8: for SystemConfig.merge and Candidate.merge alike the key set of the
\* result's idx is keys(x.idx) \cup keys(y.idx), in every branch.
C8_KeySetUnion ==
    (SCMerged \/ CandMerged) => Keys(fn.res) = Keys(fn.x) \cup Keys(fn.y)

C8_Witness ==
    /\ CandMerged /\ fn.is_i
    /\ Keys(fn.y) # Keys(fn.x) /\ Keys(fn.y) \subseteq Keys(fn.x)

\* C9: if keys(c_i) is a strict subset of keys(c_j) the result is c_j
\* whatever the perf values; if the key sets are equal the result is the
\* candidate with the strictly greater perf; if keys(c_j) is a strict
\* subset of keys(c_i) the result is c_i.
C9_CandMergeSelection ==
    CandMerged =>
        LET Ki == Keys(fn.x)
            Kj == Keys(fn.y)
        IN  /\ (Ki \subseteq Kj /\ Ki # Kj) => (fn.res = fn.y /\ ~fn.is_i)
            /\ (Ki = Kj /\ fn.y.perf > fn.x.perf) => (fn.res = fn.y /\ ~fn.is_i)
            /\ (Ki = Kj /\ fn.x.perf > fn.y.perf) => (fn.res = fn.x /\ fn.is_i)
            /\ (Kj \subseteq Ki /\ Ki # Kj) => (fn.res = fn.x /\ fn.is_i)

C9_Witness ==
    /\ CandMerged
    /\ Keys(fn.x) \subseteq Keys(fn.y) /\ Keys(fn.x) # Keys(fn.y)
    /\ fn.x.perf > fn.y.perf

\* C10: with equal key sets and equal perf the result's author is the
\* lexicographically smaller of the two authors, and c_i is kept when the
\* authors are equal.
C10_CandMergeTieBreak ==
    (CandMerged /\ Keys(fn.x) = Keys(fn.y) /\ fn.x.perf = fn.y.perf) =>
        /\ fn.res.agent = IF fn.y.agent < fn.x.agent THEN fn.y.agent ELSE fn.x.agent
        /\ fn.res = IF fn.y.agent < fn.x.agent THEN fn.y ELSE fn.x
        /\ fn.x.agent = fn.y.agent => fn.is_i

C10_Witness ==
    /\ CandMerged /\ Keys(fn.x) = Keys(fn.y) /\ fn.x.perf = fn.y.perf
    /\ fn.y.agent < fn.x.agent /\ fn.x.cs # fn.y.cs

\* C11: when c_j knows an agent unknown to c_i and keys(c_i) is not a
\* subset of keys(c_j), the result is a new candidate authored by the
\* merging agent over the union of the key sets; agents known to c_i keep
\* c_i's (row, sid), the others get c_j's; perf is perf_fn of the new matrix.
C11_CandMergeUnion ==
    (CandMerged /\ Keys(fn.y) \ Keys(fn.x) # {} /\ ~(Keys(fn.x) \subseteq Keys(fn.y))) =>
        /\ ~fn.is_i
        /\ fn.res.agent = fn.me
        /\ Keys(fn.res) = Keys(fn.x) \cup Keys(fn.y)
        /\ \A a \in Keys(fn.x) : CandData(fn.res, a) = CandData(fn.x, a)
        /\ \A a \in Keys(fn.y) \ Keys(fn.x) : CandData(fn.res, a) = CandData(fn.y, a)
        /\ fn.res.perf = Objective(fn.res.cs, fn.scn.ts, fn.scn.weights)

C11_Witness ==
    /\ CandMerged
    /\ Keys(fn.x) = {1, 2} /\ Keys(fn.y) = {2, 3}
    /\ CandData(fn.x, 2) # CandData(fn.y, 2)
    /\ fn.me \notin {fn.x.agent, fn.y.agent}

\* C12: SystemConfig.update(agent, os, sid) returns an SC with the agent's
\* row and sid replaced and its counter exactly one greater; the other
\* agents' rows, sids and counters and the index map are as before; the SC
\* it was called on is not modified.
C12_SCUpdateFrame ==
    SCUpdated =>
        /\ fn.res.idx = fn.x.idx
        /\ SCData(fn.res, fn.agent) =
              [os |-> fn.os, sid |-> fn.sid, count |-> SCData(fn.x, fn.agent).count + 1]
        /\ \A b \in Keys(fn.x) \ {fn.agent} : SCData(fn.res, b) = SCData(fn.x, b)
        /\ DOMAIN fn.res.cs = DOMAIN fn.x.cs
        /\ DOMAIN fn.res.sids = DOMAIN fn.x.sids
        /\ DOMAIN fn.res.cnt = DOMAIN fn.x.cnt
        /\ fn.self = fn.x

C12_Witness ==
    /\ SCUpdated
    /\ Cardinality(Keys(fn.x)) = 3
    /\ fn.agent = 2
    /\ SCData(fn.x, 2).sid # fn.sid
    /\ SCData(fn.x, 2).count = MaxCnt

\* The objective of sc with name's row set to the catalogue's p-th schedule.
PerfWith(sc, name, scn, p) ==
    Objective([i \in DOMAIN sc.cs |-> IF i = sc.idx[name] THEN scn.ps[name][p].os ELSE sc.cs[i]],
              scn.ts, scn.weights)

\* C30: _decide(sc, c) returns another candidate exactly when some schedule
\* of the catalogue, put in the agent's row of sc, gives an objective
\* strictly greater than c.perf.  The new candidate is authored by the
\* agent, has the index map and sids of sc, the rows of sc with the own row
\* replaced by the first schedule in catalogue order that attains the
\* greatest such objective, and that objective, greater than c.perf, as
\* perf.  Otherwise the candidate returned is c.
C30_DecideBestFirst ==
    Decided =>
        LET ps      == fn.scn.ps[fn.name]
            better  == {p \in DOMAIN ps : PerfWith(fn.x, fn.name, fn.scn, p) > fn.c.perf}
            best    == CHOOSE p \in better :
                          /\ \A q \in better :
                                PerfWith(fn.x, fn.name, fn.scn, q) <= PerfWith(fn.x, fn.name, fn.scn, p)
                          /\ \A q \in better :
                                PerfWith(fn.x, fn.name, fn.scn, q) = PerfWith(fn.x, fn.name, fn.scn, p)
                                    => p <= q
            i       == fn.x.idx[fn.name]
        IN  /\ (fn.candidate # fn.c) <=> (better # {})
            /\ better # {} =>
                  /\ fn.candidate.agent = fn.name
                  /\ fn.candidate.idx = fn.x.idx
                  /\ fn.candidate.cs = [fn.x.cs EXCEPT ![i] = ps[best].os]
                  /\ fn.candidate.sids = [fn.x.sids EXCEPT ![i] = ps[best].sid]
                  /\ fn.candidate.perf = PerfWith(fn.x, fn.name, fn.scn, best)
                  /\ fn.candidate.perf > fn.c.perf

C30_Witness ==
    /\ Decided /\ fn.scn = Scenario5 /\ fn.name = 1
    /\ Keys(fn.x) = {1, 2} /\ Keys(fn.c) = {1, 2}
    /\ PerfWith(fn.x, 1, fn.scn, 2) = PerfWith(fn.x, 1, fn.scn, 3)
    /\ PerfWith(fn.x, 1, fn.scn, 2) > fn.c.perf
    /\ CandData(fn.candidate, 1).sid = 1
    /\ fn.c.agent = 2


-----------------------------------------------------------------------------
(* The topology manager *)

\* Agents (the keys of the controller's agent dict) are 1 .. n in dict
\* order; addr[a] is agent a's address, addresses ordered as the integers.
\* phi is num / den.
TopoInputs ==
    UNION {{[n |-> n, addr |-> ad, phi |-> ph] :
              ad \in Perms(1 .. n),
              ph \in {[num |-> 0, den |-> 1], [num |-> 1, den |-> 2], [num |-> 1, den |-> 1]}}
           : n \in 1 .. MaxAgents}

\* agent_list: the agents sorted by their address, positions 0 .. n - 1.
AgentList(n, addr) ==
    [i \in 0 .. n - 1 |-> CHOOSE a \in 1 .. n : Cardinality({b \in 1 .. n : addr[b] < addr[a]}) = i]

\* As BuildRing, but only the right neighbor is linked.
BuildRingRightOnly(topology, agent_list, n, addr) ==
    [agent \in DOMAIN topology |->
        LET i == CHOOSE j \in 0 .. n - 1 : agent_list[j] = agent
        IN  topology[agent] \cup {addr[agent_list[(i + 1) % n]]}]

\* TopologyManager._build_ring
BuildRing(topology, agent_list, n, addr) ==
    [agent \in DOMAIN topology |->
        LET i == CHOOSE j \in 0 .. n - 1 : agent_list[j] = agent
        IN  topology[agent] \cup {addr[agent_list[(i - 1) % n]], addr[agent_list[(i + 1) % n]]}]

\* As AddPair, but only agent_a learns of agent_b.
AddPairOneWay(topology, agent_a, agent_b, addr) ==
    IF agent_a = agent_b THEN topology
    ELSE [topology EXCEPT ![agent_a] = @ \cup {addr[agent_b]}]

\* As AddPair, but a pair of one agent with itself is added too.
AddPairWithSelf(topology, agent_a, agent_b, addr) ==
    [x \in DOMAIN topology |->
        IF x = agent_a /\ x = agent_b THEN topology[x] \cup {addr[x]}
        ELSE IF x = agent_a THEN topology[x] \cup {addr[agent_b]}
        ELSE IF x = agent_b THEN topology[x] \cup {addr[agent_a]}
        ELSE topology[x]]

\* One pass of the loop of _add_random_topology for the drawn pair.
AddPair(topology, agent_a, agent_b, addr) ==
    IF agent_a = agent_b THEN topology
    ELSE [topology EXCEPT ![agent_a] = @ \cup {addr[agent_b]},
                          ![agent_b] = @ \cup {addr[agent_a]}]

\* Tuples of names in the order of sorted().
LexLess(p, q) == p[1] < q[1] \/ (p[1] = q[1] /\ p[2] < q[2])

RECURSIVE Sorted(_)
Sorted(S) ==
    IF S = {} THEN <<>>
    ELSE LET m == CHOOSE x \in S : \A y \in S \ {x} : LexLess(x, y)
         IN  <<m>> \o Sorted(S \ {m})

\* TopologyManager.topology_as_list
TopologyAsList(topology, addr, agent_names) ==
    LET connections ==
            {IF addr[agent] < others_addr
             THEN <<agent_names[addr[agent]], agent_names[others_addr]>>
             ELSE <<agent_names[others_addr], agent_names[addr[agent]]>> :
                <<agent, others_addr>> \in
                    {pr \in (DOMAIN topology) \X (UNION {topology[a] : a \in DOMAIN topology}) :
                        pr[2] \in topology[pr[1]]}}
    IN  Sorted(connections)

InitTopo ==
    /\ POff
    /\ \E in \in TopoInputs :
         fn = [phase |-> "new", n |-> in.n, addr |-> in.addr, phi |-> in.phi]

\* make_topology up to the random extras: empty sets, and the ring unless
\* there is one agent only.  draws is int(len(agent_list) * phi).
MakeTopology ==
    /\ fn.phase = "new"
    /\ LET empty == [a \in 1 .. fn.n |-> {}]
       IN  fn' = [phase |-> "topology", n |-> fn.n, addr |-> fn.addr, phi |-> fn.phi,
                  topology |-> IF fn.n = 1 THEN empty
                               ELSE BuildRing(empty, AgentList(fn.n, fn.addr), fn.n, fn.addr),
                  draws |-> IF fn.n = 1 THEN 0 ELSE (fn.n * fn.phi.num) \div fn.phi.den,
                  k |-> 0, pair |-> <<>>]
    /\ UNCHANGED pvars

\* One pass of the loop of _add_random_topology: rnd.choice twice; every
\* pair stands for some seed.  pair keeps the last draw.
AddRandomTopology ==
    /\ fn.phase = "topology"
    /\ fn.k < fn.draws
    /\ \E agent_a \in 1 .. fn.n, agent_b \in 1 .. fn.n :
         fn' = [fn EXCEPT !.topology = AddPair(fn.topology, agent_a, agent_b, fn.addr),
                          !.k = @ + 1,
                          !.pair = <<agent_a, agent_b>>]
    /\ UNCHANGED pvars

\* make_topology has returned.
TopologyMade == fn.phase \in {"topology", "list"} /\ fn.k = fn.draws

\* topology_as_list for some assignment of distinct names to the addresses.
TopologyList ==
    /\ fn.phase = "topology"
    /\ fn.k = fn.draws
    /\ \E agent_names \in Perms(1 .. fn.n) :
         fn' = [phase |-> "list", n |-> fn.n, addr |-> fn.addr, phi |-> fn.phi,
                topology |-> fn.topology, draws |-> fn.draws, k |-> fn.k, pair |-> fn.pair,
                agent_names |-> agent_names,
                list |-> TopologyAsList(fn.topology, fn.addr, agent_names)]
    /\ UNCHANGED pvars

NextTopo == MakeTopology \/ AddRandomTopology \/ TopologyList

SpecTopo == InitTopo /\ [][NextTopo]_vars

-----------------------------------------------------------------------------
(* Properties of the topology *)

\* C21: in every topology make_topology builds, whatever pairs the random
\* step draws, b's address is in N(a) if and only if a's address is in N(b).
C21_TopologySymmetric ==
    fn.phase \in {"topology", "list"} =>
        \A a \in 1 .. fn.n, b \in 1 .. fn.n :
            fn.addr[b] \in fn.topology[a] <=> fn.addr[a] \in fn.topology[b]

C21_Witness ==
    /\ TopologyMade /\ fn.n = 4 /\ fn.draws = 4
    /\ fn.pair # <<>> /\ fn.pair[1] # fn.pair[2]
    /\ Cardinality(fn.topology[fn.pair[1]]) = 3
    /\ \E a \in 1 .. fn.n : Cardinality(fn.topology[a]) = 2

\* C22: no agent's own address is in its neighbor set, and a single agent
\* has the empty neighbor set.
C22_TopologyIrreflexive ==
    fn.phase \in {"topology", "list"} =>
        /\ \A a \in 1 .. fn.n : fn.addr[a] \notin fn.topology[a]
        /\ fn.n = 1 => fn.topology = [a \in {1} |-> {}]
        /\ fn.n = 2 => \A a \in 1 .. 2 : fn.topology[a] = {fn.addr[3 - a]}

C22_Witness ==
    /\ TopologyMade /\ fn.n = 2 /\ fn.draws = 2
    /\ fn.addr = <<2, 1>>
    /\ fn.pair = <<1, 1>>
    /\ fn.topology[1] = {1}

\* C23: with two or more agents the topology contains the ring over the
\* agents sorted by address, and every agent is reachable from every other.
Reach(n) ==
    LET step(R) == R \cup {b \in 1 .. fn.n : \E a \in R : fn.addr[b] \in fn.topology[a]}
        f[i \in 0 .. fn.n] == IF i = 0 THEN {1} ELSE step(f[i - 1])
    IN  f[n]

C23_TopologyConnected ==
    (fn.phase \in {"topology", "list"} /\ fn.n >= 2) =>
        /\ \A a \in 1 .. fn.n :
             \A x \in 1 .. fn.n :
                 (x = ((fn.addr[a] - 2) % fn.n) + 1 \/ x = (fn.addr[a] % fn.n) + 1)
                     => x \in fn.topology[a]
        /\ Reach(fn.n) = 1 .. fn.n

C23_Witness ==
    /\ TopologyMade /\ fn.n = 4 /\ fn.draws = 2 /\ fn.k = 2
    /\ fn.addr = <<3, 1, 4, 2>>
    /\ \A a \in 1 .. fn.n : Cardinality(fn.topology[a]) = 2

\* C24: topology_as_list returns every undirected edge exactly once, as a
\* tuple of names with the smaller name first, in sorted order, for every
\* assignment of distinct names to the addresses.
C24_TopologyAsList ==
    fn.phase = "list" =>
        LET edges == {e \in SUBSET (1 .. fn.n) :
                        \E a \in 1 .. fn.n, b \in 1 .. fn.n :
                            a # b /\ e = {a, b} /\ fn.addr[b] \in fn.topology[a]}
            nameOf(a) == fn.agent_names[fn.addr[a]]
        IN  /\ Len(fn.list) = Cardinality(edges)
            /\ \A e \in edges : \E i \in DOMAIN fn.list :
                  {fn.list[i][1], fn.list[i][2]} = {nameOf(a) : a \in e}
            /\ \A i \in DOMAIN fn.list : fn.list[i][1] < fn.list[i][2]
            /\ \A i \in DOMAIN fn.list, j \in DOMAIN fn.list :
                  i < j => LexLess(fn.list[i], fn.list[j])

\* The same for the order of the addresses in place of the order of the names.
ListCanonicalByAddress ==
    fn.phase = "list" =>
        \A i \in DOMAIN fn.list :
            \E a \in 1 .. fn.n, b \in 1 .. fn.n :
                /\ fn.addr[a] < fn.addr[b]
                /\ fn.list[i] = <<fn.agent_names[fn.addr[a]], fn.agent_names[fn.addr[b]]>>

C24_Witness ==
    /\ fn.phase = "list" /\ fn.n = 2
    /\ fn.agent_names = <<2, 1>>
    /\ fn.list = <<<<2, 1>>>>

=============================================================================
